---- MODULE Spec2Model ----
(***************************************************************************)
(* RepoPilot: the scheduler + runner + JSON store triad.                   *)
(*                                                                         *)
(* State: the rows of tasks.json and runs.json, the notifications, the     *)
(* per-task event log (the events the runner and the handlers append       *)
(* besides the agent's stream lines), the runner's process registry, each  *)
(* worker thread's position in _worker_loop/run_task, each agent           *)
(* subprocess, and each HTTP handler thread's position.                    *)
(*                                                                         *)
(* Granularity: one action per section run under one store lock (a call    *)
(* of get_task, update_task, claim_next_task, ...).  A handler that takes  *)
(* the tasks lock twice (get_task, then update_task) is two actions, so    *)
(* that other threads may run in between, as they may in the code.         *)
(*                                                                         *)
(* Left out of a task row: title, prompt, pr_url, error_message,           *)
(* updated_at, worker_id, the session ids; of a run: attempt, timestamps,  *)
(* branch, commit.  Of the event log only the timeout, artifact and        *)
(* worktree_cleanup events are kept.                                       *)
(***************************************************************************)
EXTENDS Integers, Sequences, FiniteSets, TLC

\* ---------------------------------------------------------------- bounds
MaxTasks == 1      \* tasks ever created
NWorkers == 2      \* worker threads of the scheduler
NReq == 2          \* HTTP handler threads that run concurrently
MaxOps == 2        \* user requests (cancel, retry, done, confirm, revise) per behaviour
MaxRuns == 2       \* runs ever created (claims per behaviour)
MaxRows == 2       \* SpecClaim: rows of tasks.json
MaxPriority == 1   \* SpecClaim: priorities are drawn from 0..MaxPriority
MaxClock == 2      \* SpecClaim: created_at values are drawn from 1..MaxClock
MaxCalls == 2      \* SpecClaim: calls of claim_next_task per behaviour
NAppenders == 2    \* SpecEvents: threads that call append_event
MaxSeq == 3        \* SpecEvents: no append is begun that would write a seq above it

Workers == 1..NWorkers
Reqs == 1..NReq
TaskIds == 1..MaxTasks
Appenders == 1..NAppenders

\* ---------------------------------------------------------------- values
NoRun == 0         \* None, for current_run_id
NoTask == 0
NoWorker == 0

TaskStatus ==
    {"TODO", "PLAN_RUNNING", "PLAN_REVIEW", "READY", "RUNNING", "REVIEW",
     "DONE", "FAILED", "CANCELLED"}

TaskMode == {"PLAN", "EXEC"}

ExecMode == {"AGENTIC", "FIXED"}

\* the exit codes of the agent: 0, or not 0
ExitCodes == {0, 1}

VARIABLES
    tasks,        \* tasks.json: sequence of task rows, in file order; id = index
    runs,         \* runs.json: sequence of run rows; id = index
    notifications,\* notifications.json: per task, the types of its notifications
    events,       \* logs/<task>.ndjson: per task, the sequence of events
    processes,    \* TaskRunner._processes: task id -> worker whose Popen is registered
    proc,         \* per worker: its agent subprocess
    wpc,          \* per worker: position in _worker_loop / run_task
    wl,           \* per worker: locals (task snapshot, run id, results)
    req,          \* per HTTP handler thread: the request in progress
    nops,         \* user requests begun so far
    execMode,     \* get_exec_mode(settings)
    now,          \* the clock utcnow_iso reads
    lockHolder,   \* locks/tasks.lock: the thread inside _lock("tasks"), if any
    call,         \* per worker: a call of claim_next_task taken step by step
    ex,           \* one run_task taken stage by stage (SpecExec)
    logFile,      \* logs/<task>.ndjson of one task, line by line (SpecEvents)
    logLock,      \* locks/log-<task>.lock: the thread inside it, if any
    appender,     \* per thread: a call of append_event taken step by step
    reader,       \* the last call of read_events: arguments, file read, result
    sc,           \* per worker: a call of _stream_claude taken step by step (SpecSession)
    alloc,        \* a call of _next_id: existing ids, the clock, the result (SpecIds)
    batch,        \* a batch plan request taken id by id (SpecBatch)
    inv,          \* one _run_claude_cmd, its agent and the clock (SpecTimeout)
    fs,           \* a collection file, the temp file and the write in progress (SpecWrite)
    poll          \* a client that polls read_events: its cursor, what it got (SpecPoll)

\* the state of a claim_next_task call taken step by step (SpecClaim)
claimVars == <<lockHolder, call>>

\* the state of the specifications that take one operation apart
logVars == <<logFile, logLock, appender, reader>>

detailVars == <<ex, logVars, sc, alloc, batch, inv, fs, poll>>

vars == <<tasks, runs, notifications, events, processes, proc, wpc, wl, req,
          nops, execMode, now, lockHolder, call, ex, logFile, logLock, appender,
          reader, sc, alloc, batch, inv, fs, poll>>

\* ---------------------------------------------------------------- store
\* get_task: the row with that id, or None
HasTask(rows, tid) == tid \in 1..Len(rows)

\* "row.update({k: v for k, v in patch.items() if v is not None})":
\* the only key a caller ever passes as None is current_run_id
IsNone(patch, k) == k = "current_run_id" /\ patch[k] = NoRun

ApplyPatch(row, patch) ==
    [k \in DOMAIN row |->
        IF k \in DOMAIN patch /\ ~IsNone(patch, k) THEN patch[k] ELSE row[k]]

\* update_task: the rows after the patch; unknown id: unchanged (returns None)
update_task(rows, tid, patch) ==
    IF HasTask(rows, tid)
    THEN [rows EXCEPT ![tid] = ApplyPatch(rows[tid], patch)]
    ELSE rows

\* update_run: same, on runs.json
update_run(rws, rid, patch) ==
    IF rid \in 1..Len(rws)
    THEN [rws EXCEPT ![rid] = [k \in DOMAIN rws[rid] |->
              IF k \in DOMAIN patch THEN patch[k] ELSE rws[rid][k]]]
    ELSE rws

\* create_task: Task(...).model_dump() appended to the rows
NewTask(mode, priority, created_at) ==
    [mode |-> mode, status |-> "TODO", priority |-> priority,
     created_at |-> created_at, cancel_requested |-> FALSE,
     error_code |-> "", current_run_id |-> NoRun, plan_result |-> FALSE]

\* ------------------------------------------------------- claim_next_task
\* (variant: a candidate filter that does not look at cancel_requested)
IsCandidateAnyFlag(row) ==
    \/ row.mode = "PLAN" /\ row.status = "TODO"
    \/ row.mode = "EXEC" /\ row.status \in {"TODO", "READY"}

\* the candidate filter of claim_next_task
IsCandidate(row) ==
    /\ ~row.cancel_requested
    /\ \/ row.mode = "PLAN" /\ row.status = "TODO"
       \/ row.mode = "EXEC" /\ row.status \in {"TODO", "READY"}

\* candidates, in file order
RECURSIVE CandidatesFrom(_, _)
CandidatesFrom(rows, i) ==
    IF i > Len(rows) THEN <<>>
    ELSE (IF IsCandidate(rows[i]) THEN <<i>> ELSE <<>>) \o CandidatesFrom(rows, i + 1)

\* (variant: the sort by ascending priority)
KeyLessAscending(a, b) ==
    \/ a.priority < b.priority
    \/ a.priority = b.priority /\ a.created_at < b.created_at

\* key=lambda r: (-(int(r.get("priority", 0))), r.get("created_at", ""))
KeyLess(a, b) ==
    \/ (0 - a.priority) < (0 - b.priority)
    \/ a.priority = b.priority /\ a.created_at < b.created_at

\* list.sort is stable: x goes after every element whose key is not greater
RECURSIVE InsertSorted(_, _, _)
InsertSorted(rows, x, s) ==
    IF s = <<>> THEN <<x>>
    ELSE IF KeyLess(rows[x], rows[Head(s)]) THEN <<x>> \o s
    ELSE <<Head(s)>> \o InsertSorted(rows, x, Tail(s))

RECURSIVE SortCandidates(_, _)
SortCandidates(rows, c) ==
    IF c = <<>> THEN <<>>
    ELSE InsertSorted(rows, c[Len(c)], SortCandidates(rows, SubSeq(c, 1, Len(c) - 1)))

\* candidates[0] after the sort, or NoTask when there is no candidate
Picked(rows) ==
    LET c == SortCandidates(rows, CandidatesFrom(rows, 1))
    IN IF c = <<>> THEN NoTask ELSE Head(c)

ClaimedStatus(mode) == IF mode = "PLAN" THEN "PLAN_RUNNING" ELSE "RUNNING"

\* the rows claim_next_task writes back (updated_at and worker_id, which
\* nothing reads, are not part of a row here)
ClaimedRows(rows) ==
    IF Picked(rows) = NoTask THEN rows
    ELSE [rows EXCEPT ![Picked(rows)].status = ClaimedStatus(rows[Picked(rows)].mode)]

\* ------------------------------------------------------------------ Init
NoLocals ==
    [task |-> NoTask, mode |-> "EXEC", run |-> NoRun, exec |-> "AGENTIC",
     cancelled |-> FALSE, exit_code |-> 0, err |-> "", worktree |-> FALSE,
     timed_out |-> FALSE]

NoCall == [pc |-> "out", rows |-> <<>>, ret |-> NoTask, n |-> 0]

\* the locals of _run_plan / _run_exec_*: nothing has run yet
NoExec ==
    [pc |-> "idle", repo |-> TRUE, worktree |-> FALSE, err |-> "",
     exit_code |-> 0, cancelled |-> FALSE, stages |-> <<>>, pr_url |-> "",
     session |-> "", use_resume |-> FALSE, cmds |-> <<>>,
     dirty |-> FALSE, head |-> "base", github_repo |-> "", create_pr |-> "",
     results |-> <<>>]

\* no log file yet ("old": its mtime is more than the retention time back)
NoLog == [exists |-> FALSE, lines |-> <<>>, old |-> FALSE]

\* a thread outside append_event
NoAppend == [pc |-> "out", saw |-> FALSE, next_seq |-> 1]

\* no read_events call made yet
NoRead == [called |-> FALSE, cursor |-> 0, file |-> NoLog, events |-> <<>>,
           next_cursor |-> 0]

\* a worker outside _stream_claude
NoSessionCall ==
    [pc |-> "out", snap |-> "", id |-> "", created |-> FALSE, code |-> 0,
     cancelled |-> FALSE]

\* no call of _next_id
NoAlloc == [pc |-> "out", existing |-> {}, sec |-> 0, id |-> [form |-> "none"]]

\* a JSON text on disk: the rows written so far, and whether the text is a
\* whole array
Text(rows, whole) == [rows |-> rows, whole |-> whole]

\* a collection file holding "[]", no temp file, no operation in progress
NoWrite ==
    [pc |-> "idle", file |-> Text(<<>>, TRUE), tmp |-> Text(<<>>, FALSE),
     prev |-> <<>>, payload |-> <<>>, stored |-> {}, made |-> 0, crashes |-> 0]

\* a client that has not polled yet
NoPoll == [cursor |-> 0, got |-> <<>>, file |-> NoLog, polled |-> FALSE]

\* no _run_claude_cmd in progress
NoInvocation ==
    [pc |-> "out", agent |-> "none", pipe |-> <<>>, elapsed |-> 0, lines |-> 0,
     log |-> <<>>, cancelled |-> FALSE, terminated |-> FALSE, overran |-> FALSE,
     returncode |-> 0]

\* no batch plan request
NoBatch ==
    [pc |-> "out", op |-> "none", payload |-> [task_ids |-> <<>>, feedback |-> ""],
     task_ids |-> <<>>, normalized |-> <<>>, feedback |-> "", i |-> 1,
     updated |-> <<>>, failed |-> <<>>, logged |-> 0, before |-> <<>>,
     counts |-> [requested |-> 0, updated |-> 0, failed |-> 0]]

InitLog ==
    /\ sc = [w \in Workers |-> NoSessionCall]
    /\ alloc = NoAlloc
    /\ batch = NoBatch
    /\ inv = NoInvocation
    /\ fs = NoWrite
    /\ poll = NoPoll
    /\ logFile = NoLog
    /\ logLock = NoWorker
    /\ appender = [a \in Appenders |-> NoAppend]
    /\ reader = NoRead

NoRequest ==
    [op |-> "none", tid |-> NoTask, pc |-> "idle", status |-> "TODO",
     mode |-> "EXEC"]

Init ==
    /\ tasks = <<>>
    /\ runs = <<>>
    /\ notifications = [t \in TaskIds |-> <<>>]
    /\ events = [t \in TaskIds |-> <<>>]
    /\ processes = [t \in TaskIds |-> NoWorker]
    /\ proc = [w \in Workers |-> "none"]
    /\ wpc = [w \in Workers |-> "idle"]
    /\ wl = [w \in Workers |-> NoLocals]
    /\ req = [r \in Reqs |-> NoRequest]
    /\ nops = 0
    /\ execMode \in ExecMode
    /\ now = 0
    /\ lockHolder = NoWorker
    /\ call = [w \in Workers |-> NoCall]
    /\ ex = NoExec
    /\ InitLog

\* ------------------------------------------------------------ create_task
\* POST /api/tasks -> JsonStore.create_task; the clock may have advanced
CreateTask(mode, priority, tick) ==
    /\ Len(tasks) < MaxTasks
    /\ now' = now + tick
    /\ tasks' = Append(tasks, NewTask(mode, priority, now'))
    /\ UNCHANGED <<runs, notifications, events, processes, proc, wpc, wl, req,
                   nops, execMode, claimVars, detailVars>>

\* ------------------------------------------------------------ the workers
\* _worker_loop: task = self.store.claim_next_task(worker_id), a task found.
\* Idle workers are interchangeable: the first of them makes the call.
Claim(w) ==
    /\ wpc[w] = "idle"
    /\ \A v \in Workers : v < w => wpc[v] # "idle"
    /\ Len(runs) + Cardinality({v \in Workers : wpc[v] = "create_run"}) < MaxRuns
    /\ LET t == Picked(tasks) IN
        /\ t # NoTask
        /\ tasks' = ClaimedRows(tasks)
        /\ wl' = [wl EXCEPT ![w] = [NoLocals EXCEPT !.task = t, !.mode = tasks[t].mode]]
    /\ wpc' = [wpc EXCEPT ![w] = "create_run"]
    /\ UNCHANGED <<runs, notifications, events, processes, proc, req, nops,
                   execMode, now, claimVars, detailVars>>

\* (variant: a run row that does not record the task it belongs to)
NewRunOrphan(tid) ==
    [task_id |-> NoTask, worktree_path |-> "", ended |-> FALSE, exit_code |-> 0,
     artifact |-> FALSE]

\* run_task: self.store.create_run(...), the write to runs.json
NewRun(tid) ==
    [task_id |-> tid, worktree_path |-> "", ended |-> FALSE, exit_code |-> 0,
     artifact |-> FALSE]

CreateRun(w) ==
    /\ wpc[w] = "create_run"
    /\ runs' = Append(runs, NewRun(wl[w].task))
    /\ wl' = [wl EXCEPT ![w].run = Len(runs) + 1]
    /\ wpc' = [wpc EXCEPT ![w] = "link_run"]
    /\ UNCHANGED <<tasks, notifications, events, processes, proc, req, nops,
                   execMode, now, claimVars, detailVars>>

\* create_run, its second write: update_task(task_id, {"current_run_id": run.id});
\* then run_task's dispatch and the head of _run_plan / _run_exec_*, which
\* touch nothing another thread reads: the repo is found (repos are never
\* deleted), PLAN runs in the repo root, EXEC in a new worktree (gitOk) unless
\* git_ops.create_worktree raises GitError, and update_run records the path
LinkRun(w, gitOk) ==
    /\ wpc[w] = "link_run"
    /\ tasks' = update_task(tasks, wl[w].task, [current_run_id |-> wl[w].run])
    /\ IF gitOk
       THEN /\ runs' = update_run(runs, wl[w].run, [worktree_path |-> "wt"])
            /\ wl' = [wl EXCEPT ![w].exec = execMode,
                                ![w].worktree = (wl[w].mode = "EXEC")]
            /\ wpc' = [wpc EXCEPT ![w] = "spawn"]
       ELSE /\ wl[w].mode = "EXEC"
            /\ runs' = runs
            /\ wl' = [wl EXCEPT ![w].exec = execMode, ![w].err = "GIT_PIPELINE_FAILED"]
            /\ wpc' = [wpc EXCEPT ![w] = "outcome"]
    /\ UNCHANGED <<notifications, events, processes, proc, req, nops, execMode,
                   now, claimVars, detailVars>>

\* _run_claude_cmd: subprocess.Popen(...) and _register_proc
Spawn(w) ==
    /\ wpc[w] = "spawn"
    /\ proc' = [proc EXCEPT ![w] = "alive"]
    /\ processes' = [processes EXCEPT ![wl[w].task] = w]
    /\ wpc' = [wpc EXCEPT ![w] = "stream"]
    /\ UNCHANGED <<tasks, runs, notifications, events, wl, req, nops, execMode,
                   now, claimVars, detailVars>>

\* Popen raises (no agent binary) in _run_exec_*: caught as UNEXPECTED_ERROR
SpawnRaises(w) ==
    /\ wpc[w] = "spawn"
    /\ wl[w].mode = "EXEC"
    /\ wl' = [wl EXCEPT ![w].err = "UNEXPECTED_ERROR"]
    /\ wpc' = [wpc EXCEPT ![w] = "outcome"]
    /\ UNCHANGED <<tasks, runs, notifications, events, processes, proc, req,
                   nops, execMode, now, claimVars, detailVars>>

\* (variant: the exception ends the worker's thread, the task stays as it is)
SafeRunCrashEndsThread(w) ==
    /\ wpc[w] = "spawn"
    /\ wl[w].mode = "PLAN"
    /\ wpc' = [wpc EXCEPT ![w] = "dead"]
    /\ UNCHANGED <<tasks, runs, notifications, events, processes, proc, wl, req,
                   nops, execMode, now, claimVars, detailVars>>

\* Popen raises in _run_plan, which does not catch it: Scheduler._safe_run,
\* except Exception, marks the task FAILED
SafeRunCrash(w) ==
    /\ wpc[w] = "spawn"
    /\ wl[w].mode = "PLAN"
    /\ tasks' = update_task(tasks, wl[w].task,
                    [status |-> "FAILED", error_code |-> "SCHEDULER_CRASH"])
    /\ wl' = [wl EXCEPT ![w] = NoLocals]
    /\ wpc' = [wpc EXCEPT ![w] = "idle"]
    /\ UNCHANGED <<runs, notifications, events, processes, proc, req, nops,
                   execMode, now, claimVars, detailVars>>

\* _is_cancel_requested: get_task(task_id).cancel_requested
is_cancel_requested(tid) == HasTask(tasks, tid) /\ tasks[tid].cancel_requested

\* (variant: no second look after the loop)
CancelledInLoop(cancelled, tid) == cancelled

\* "if not cancelled and self._is_cancel_requested(task_id): cancelled = True"
\* after the loop and proc.wait
CancelledAfterLoop(cancelled, tid) == cancelled \/ is_cancel_requested(tid)

\* the stream loop read a line and found cancel_requested: terminate, break
StreamCancel(w) ==
    /\ wpc[w] = "stream"
    /\ is_cancel_requested(wl[w].task)
    /\ wl' = [wl EXCEPT ![w].cancelled = TRUE]
    /\ proc' = [proc EXCEPT ![w] = "terminated"]
    /\ wpc' = [wpc EXCEPT ![w] = "wait"]
    /\ UNCHANGED <<tasks, runs, notifications, events, processes, req, nops,
                   execMode, now, claimVars, detailVars>>

\* the stream loop read a line, no cancel, and the run is over its time
StreamTimeout(w) ==
    /\ wpc[w] = "stream"
    /\ ~is_cancel_requested(wl[w].task)
    /\ events' = [events EXCEPT ![wl[w].task] = Append(@, [type |-> "timeout"])]
    /\ wl' = [wl EXCEPT ![w].timed_out = TRUE]
    /\ proc' = [proc EXCEPT ![w] = "terminated"]
    /\ wpc' = [wpc EXCEPT ![w] = "wait"]
    /\ UNCHANGED <<tasks, runs, notifications, processes, req, nops, execMode,
                   now, claimVars, detailVars>>

\* the process ended (by itself or after terminate()) with exit code `code`:
\* the loop sees EOF or proc.wait returns, _unregister_proc, the second look
\* at cancel_requested; the result is (proc.returncode or 0, text, cancelled)
PostLoop(w, code) ==
    /\ wpc[w] \in {"stream", "wait"}
    /\ processes' = [processes EXCEPT ![wl[w].task] = NoWorker]
    /\ wl' = [wl EXCEPT ![w].cancelled = CancelledAfterLoop(@, wl[w].task),
                        ![w].exit_code = code]
    /\ proc' = [proc EXCEPT ![w] = "none"]
    /\ wpc' = [wpc EXCEPT ![w] = "outcome"]
    /\ UNCHANGED <<tasks, runs, notifications, events, req, nops, execMode, now,
                   claimVars, detailVars>>

\* proc.wait(timeout=15) raised TimeoutExpired: proc.kill(); returncode is
\* still None, so the result carries exit code 0
PostLoopKill(w) ==
    /\ wpc[w] = "wait"
    /\ processes' = [processes EXCEPT ![wl[w].task] = NoWorker]
    /\ wl' = [wl EXCEPT ![w].cancelled = CancelledAfterLoop(@, wl[w].task),
                        ![w].exit_code = 0]
    /\ proc' = [proc EXCEPT ![w] = "none"]
    /\ wpc' = [wpc EXCEPT ![w] = "outcome"]
    /\ UNCHANGED <<tasks, runs, notifications, events, req, nops, execMode, now,
                   claimVars, detailVars>>

\* _finish_run: ended_at and the exit code, on the run
\* (variant: the run is closed with exit code 0 whatever the agent returned)
finish_run_zero(rws, rid, code) == update_run(rws, rid, [ended |-> TRUE, exit_code |-> 0])

finish_run(rws, rid, code) == update_run(rws, rid, [ended |-> TRUE, exit_code |-> code])

\* the patches of _mark_cancelled, _mark_failed, _mark_review and of the
\* PLAN_REVIEW update in _run_plan
MarkCancelledPatch(rid) ==
    [status |-> "CANCELLED", error_code |-> "CANCELLED", current_run_id |-> rid]

MarkFailedPatch(rid, code) ==
    [status |-> "FAILED", error_code |-> code, current_run_id |-> rid]

MarkReviewPatch(rid) ==
    [status |-> "REVIEW", error_code |-> "", current_run_id |-> rid,
     cancel_requested |-> FALSE]

\* (variant: the PLAN_REVIEW write without the parsed plan)
PlanReviewPatchNoPlan(rid) ==
    [status |-> "PLAN_REVIEW", error_code |-> "", current_run_id |-> rid]

PlanReviewPatch(rid) ==
    [status |-> "PLAN_REVIEW", plan_result |-> TRUE, error_code |-> "",
     current_run_id |-> rid]

\* create_notification, for the task
Notify(t, type) == [notifications EXCEPT ![t] = Append(@, type)]

\* one write of the task, the notification that follows it and _finish_run
Finish(w, patch, type, code) ==
    /\ tasks' = update_task(tasks, wl[w].task, patch)
    /\ notifications' = Notify(wl[w].task, type)
    /\ runs' = finish_run(runs, wl[w].run, code)

\* the end of a worker's run_task: back to _worker_loop, or on to the
\* finally block of _run_exec_* when a worktree was created
AfterOutcome(w) ==
    IF wl[w].worktree
    THEN /\ wpc' = [wpc EXCEPT ![w] = "finally"]
         /\ wl' = wl
    ELSE /\ wpc' = [wpc EXCEPT ![w] = "idle"]
         /\ wl' = [wl EXCEPT ![w] = NoLocals]

\* an exception caught by _run_exec_* before or around the agent's run
OutcomeError(w) ==
    /\ wpc[w] = "outcome"
    /\ wl[w].err # ""
    /\ Finish(w, MarkFailedPatch(wl[w].run, wl[w].err), "ERROR", 1)
    /\ AfterOutcome(w)
    /\ UNCHANGED <<events, processes, proc, req, nops, execMode, now, claimVars, detailVars>>

\* "if cancelled:" in _run_plan and _run_exec_*
OutcomeCancelled(w) ==
    /\ wpc[w] = "outcome"
    /\ wl[w].err = ""
    /\ wl[w].cancelled
    /\ Finish(w, MarkCancelledPatch(wl[w].run), "INFO", wl[w].exit_code)
    /\ AfterOutcome(w)
    /\ UNCHANGED <<events, processes, proc, req, nops, execMode, now, claimVars, detailVars>>

\* "if exit_code != 0:"
OutcomeNonZero(w) ==
    /\ wpc[w] = "outcome"
    /\ wl[w].err = ""
    /\ ~wl[w].cancelled
    /\ wl[w].exit_code # 0
    /\ Finish(w, MarkFailedPatch(wl[w].run,
                    IF wl[w].mode = "PLAN" THEN "PLAN_EXIT_NONZERO"
                                           ELSE "EXEC_EXIT_NONZERO"),
              "ERROR", wl[w].exit_code)
    /\ AfterOutcome(w)
    /\ UNCHANGED <<events, processes, proc, req, nops, execMode, now, claimVars, detailVars>>

\* _run_plan, exit code 0: parse_plan, PLAN_REVIEW with the plan attached
OutcomePlanReview(w) ==
    /\ wpc[w] = "outcome"
    /\ wl[w].err = ""
    /\ ~wl[w].cancelled
    /\ wl[w].exit_code = 0
    /\ wl[w].mode = "PLAN"
    /\ Finish(w, PlanReviewPatch(wl[w].run), "INFO", 0)
    /\ AfterOutcome(w)
    /\ UNCHANGED <<events, processes, proc, req, nops, execMode, now, claimVars, detailVars>>

\* _run_exec_fixed, exit code 0: has_material_changes is false (NO_CHANGES),
\* or a stage of commit, rebase, tests, push, PR raises GitError
OutcomeFixedFailed(w, code) ==
    /\ wpc[w] = "outcome"
    /\ wl[w].err = ""
    /\ ~wl[w].cancelled
    /\ wl[w].exit_code = 0
    /\ wl[w].mode = "EXEC"
    /\ wl[w].exec = "FIXED"
    /\ Finish(w, MarkFailedPatch(wl[w].run, code), "ERROR", 1)
    /\ AfterOutcome(w)
    /\ UNCHANGED <<events, processes, proc, req, nops, execMode, now, claimVars, detailVars>>

\* _run_exec_fixed after the push and _run_exec_agentic, exit code 0: _mark_review
OutcomeReview(w) ==
    /\ wpc[w] = "outcome"
    /\ wl[w].err = ""
    /\ ~wl[w].cancelled
    /\ wl[w].exit_code = 0
    /\ wl[w].mode = "EXEC"
    /\ Finish(w, MarkReviewPatch(wl[w].run), "SUCCESS", 0)
    /\ AfterOutcome(w)
    /\ UNCHANGED <<events, processes, proc, req, nops, execMode, now, claimVars, detailVars>>

\* JsonStore.get_run (called by the runner and the tests)
get_run(rws, rid) == IF rid \in 1..Len(rws) THEN rws[rid] ELSE [task_id |-> NoTask]

CleanupEvent(trigger, result) ==
    [type |-> "worktree_cleanup", trigger_status |-> trigger, result |-> result]

\* (variant: a cleanup that does not clear the run's worktree_path)
CleanupRunsKeepsPath(rws, rid, snapshot, snapOk, cleanOk) ==
    IF get_run(rws, rid).task_id = NoTask \/ get_run(rws, rid).worktree_path = ""
    THEN rws
    ELSE IF snapshot /\ snapOk THEN update_run(rws, rid, [artifact |-> TRUE]) ELSE rws

\* _cleanup_exec_worktree_for_run: the runs and the task's log afterwards;
\* snapOk, cleanOk: snapshot_worktree / cleanup_worktree did not raise
CleanupRuns(rws, rid, snapshot, snapOk, cleanOk) ==
    IF get_run(rws, rid).task_id = NoTask \/ get_run(rws, rid).worktree_path = ""
    THEN rws
    ELSE LET r1 == IF snapshot /\ snapOk
                   THEN update_run(rws, rid, [artifact |-> TRUE]) ELSE rws
         IN IF cleanOk THEN update_run(r1, rid, [worktree_path |-> ""]) ELSE r1

CleanupLog(log, rws, rid, trigger, snapshot, snapOk, cleanOk) ==
    IF get_run(rws, rid).task_id = NoTask
    THEN Append(log, CleanupEvent(trigger, "run_not_found"))
    ELSE IF get_run(rws, rid).worktree_path = ""
    THEN Append(log, CleanupEvent(trigger, "skip_empty_path"))
    ELSE (IF snapshot /\ snapOk THEN Append(log, [type |-> "artifact"]) ELSE log)
         \o <<CleanupEvent(trigger, IF cleanOk THEN "success" ELSE "failed")>>

\* the finally block of _run_exec_*: get_task, and for a FAILED or CANCELLED
\* task the snapshot and the cleanup of the worktree
Finally(w, snapOk, cleanOk) ==
    /\ wpc[w] = "finally"
    /\ LET t == wl[w].task
           st == tasks[t].status
       IN IF st \in {"FAILED", "CANCELLED"}
          THEN /\ runs' = CleanupRuns(runs, wl[w].run, TRUE, snapOk, cleanOk)
               /\ events' = [events EXCEPT ![t] =
                     CleanupLog(@, runs, wl[w].run, st, TRUE, snapOk, cleanOk)]
          ELSE /\ snapOk /\ cleanOk
               /\ UNCHANGED <<runs, events>>
    /\ wpc' = [wpc EXCEPT ![w] = "idle"]
    /\ wl' = [wl EXCEPT ![w] = NoLocals]
    /\ UNCHANGED <<tasks, notifications, processes, proc, req, nops, execMode,
                   now, claimVars, detailVars>>

WorkerStep(w) ==
    \/ Claim(w)
    \/ CreateRun(w)
    \/ \E gitOk \in BOOLEAN : LinkRun(w, gitOk)
    \/ Spawn(w)
    \/ SpawnRaises(w)
    \/ SafeRunCrash(w)
    \/ StreamCancel(w)
    \/ StreamTimeout(w)
    \/ \E code \in ExitCodes : PostLoop(w, code)
    \/ PostLoopKill(w)
    \/ OutcomeError(w)
    \/ OutcomeCancelled(w)
    \/ OutcomeNonZero(w)
    \/ OutcomePlanReview(w)
    \/ \E code \in {"NO_CHANGES", "GIT_PIPELINE_FAILED"} : OutcomeFixedFailed(w, code)
    \/ OutcomeReview(w)
    \/ \E snapOk \in BOOLEAN, cleanOk \in BOOLEAN : Finally(w, snapOk, cleanOk)

\* ------------------------------------------------------- the HTTP handlers
\* Handler threads are interchangeable: a request runs on the first free one.
FreeReq(r) ==
    /\ req[r].pc = "idle"
    /\ \A q \in Reqs : q < r => req[q].pc # "idle"
    /\ nops < MaxOps

\* the handler's first look at the task, get_task: unknown id (404) and
\* `rejected` (400) end the request, otherwise it goes on to its update_task
\* with `status` and `mode` in its locals
Begin(r, op, t, status, mode, rejected) ==
    /\ FreeReq(r)
    /\ nops' = nops + 1
    /\ req' = [req EXCEPT ![r] =
          IF ~HasTask(tasks, t) \/ rejected THEN NoRequest
          ELSE [op |-> op, tid |-> t, pc |-> "write", status |-> status,
                mode |-> mode]]
    /\ UNCHANGED <<tasks, runs, notifications, events, processes, proc, wpc, wl,
                   execMode, now, claimVars, detailVars>>

\* the handler's update_task; then it returns 200 or goes on (cancel)
Write(r, op, patch, pc) ==
    /\ req[r].pc = "write"
    /\ req[r].op = op
    /\ tasks' = update_task(tasks, req[r].tid, patch)
    /\ req' = [req EXCEPT ![r] = IF pc = "idle" THEN NoRequest
                                 ELSE [req[r] EXCEPT !.pc = pc]]
    /\ UNCHANGED <<runs, notifications, events, processes, proc, wpc, wl, nops,
                   execMode, now, claimVars, detailVars>>

\* the status get_task returned, or that of no task
StatusOf(t) == IF HasTask(tasks, t) THEN tasks[t].status ELSE "TODO"

ModeOf(t) == IF HasTask(tasks, t) THEN tasks[t].mode ELSE "EXEC"

\* POST /cancel -> JsonStore.cancel_task: task = self.get_task(task_id)
CancelRead(r, t) == Begin(r, "cancel", t, StatusOf(t), "EXEC", FALSE)

\* cancel_task: the update_task chosen by the status that get_task returned
CancelPatch(status) ==
    IF status \in {"TODO", "READY", "PLAN_REVIEW"}
    THEN [status |-> "CANCELLED", cancel_requested |-> TRUE]
    ELSE [cancel_requested |-> TRUE]

CancelWrite(r) == Write(r, "cancel", CancelPatch(req[r].status), "signal")

\* scheduler.request_cancel -> TaskRunner.cancel: terminate the registered
\* process if proc.poll() is None
CancelSignal(r) ==
    /\ req[r].pc = "signal"
    /\ LET w == processes[req[r].tid] IN
        proc' = IF w # NoWorker /\ proc[w] = "alive"
                THEN [proc EXCEPT ![w] = "terminated"] ELSE proc
    /\ req' = [req EXCEPT ![r] = NoRequest]
    /\ UNCHANGED <<tasks, runs, notifications, events, processes, wpc, wl, nops,
                   execMode, now, claimVars, detailVars>>

\* POST /retry -> reset_task_for_retry: get_task; mode is the requested mode
\* ("None": none requested) or the mode get_task returned
RetryRead(r, t, reset_mode) ==
    Begin(r, "retry", t, "TODO",
          IF reset_mode # "None" THEN reset_mode ELSE ModeOf(t), FALSE)

RetryPatch(mode) ==
    [status |-> "TODO", mode |-> mode, error_code |-> "",
     cancel_requested |-> FALSE, current_run_id |-> NoRun]

RetryWrite(r) == Write(r, "retry", RetryPatch(req[r].mode), "idle")

\* POST /done -> mark_done: get_task, 400 unless the status is REVIEW
DoneRead(r, t) ==
    Begin(r, "done", t, "TODO", "EXEC", StatusOf(t) # "REVIEW")

DonePatch == [status |-> "DONE"]

DoneWrite(r) == Write(r, "done", DonePatch, "idle")

\* POST /plan/confirm -> confirm_plan: get_task, 400 unless PLAN_REVIEW
ConfirmRead(r, t) ==
    Begin(r, "confirm", t, "TODO", "EXEC", StatusOf(t) # "PLAN_REVIEW")

ConfirmPatch ==
    [mode |-> "EXEC", status |-> "READY", error_code |-> "",
     cancel_requested |-> FALSE]

ConfirmWrite(r) == Write(r, "confirm", ConfirmPatch, "idle")

\* POST /plan/revise -> revise_plan: get_task, 400 unless PLAN_REVIEW
ReviseRead(r, t) ==
    Begin(r, "revise", t, "TODO", "EXEC", StatusOf(t) # "PLAN_REVIEW")

RevisePatch ==
    [mode |-> "PLAN", status |-> "TODO", error_code |-> "",
     cancel_requested |-> FALSE]

ReviseWrite(r) == Write(r, "revise", RevisePatch, "idle")

UserStep(r) ==
    \/ \E t \in TaskIds : CancelRead(r, t)
    \/ CancelWrite(r)
    \/ CancelSignal(r)
    \/ \E t \in TaskIds, m \in TaskMode \cup {"None"} : RetryRead(r, t, m)
    \/ RetryWrite(r)
    \/ \E t \in TaskIds : DoneRead(r, t)
    \/ DoneWrite(r)
    \/ \E t \in TaskIds : ConfirmRead(r, t)
    \/ ConfirmWrite(r)
    \/ \E t \in TaskIds : ReviseRead(r, t)
    \/ ReviseWrite(r)

Next ==
    \/ \E m \in TaskMode : CreateTask(m, 0, 1)
    \/ \E w \in Workers : WorkerStep(w)
    \/ \E r \in Reqs : UserStep(r)

Spec == Init /\ [][Next]_vars

\* ------------------------------------- claim_next_task under the tasks lock
\* A call of claim_next_task taken apart: flock(LOCK_EX) and _read_json, then
\* the choice, _write_json_atomic and flock(LOCK_UN).  The rows of tasks.json
\* at the start are drawn from the (mode, status) pairs below, any priority,
\* any cancel flag, created_at not decreasing along the file.

\* (variant: a lock that never makes a caller wait)
LockNeverHeld(holder) == TRUE

\* flock(fh, LOCK_EX) returns once no other thread holds the lock
LockFree(holder) == holder = NoWorker

ClaimPairs ==
    {<<"PLAN", "TODO">>, <<"EXEC", "TODO">>, <<"EXEC", "READY">>,
     <<"EXEC", "RUNNING">>, <<"PLAN", "PLAN_REVIEW">>}

ClaimRowSet ==
    {[NewTask(ms[1], p, c) EXCEPT !.status = ms[2], !.cancel_requested = f] :
        ms \in ClaimPairs, p \in 0..MaxPriority, c \in 1..MaxClock, f \in BOOLEAN}

ClaimFiles ==
    UNION {{rows \in [1..n -> ClaimRowSet] :
              \A i \in 2..n : rows[i - 1].created_at <= rows[i].created_at} :
           n \in 0..MaxRows}

InitClaim ==
    /\ tasks \in ClaimFiles
    /\ runs = <<>>
    /\ notifications = [t \in TaskIds |-> <<>>]
    /\ events = [t \in TaskIds |-> <<>>]
    /\ processes = [t \in TaskIds |-> NoWorker]
    /\ proc = [w \in Workers |-> "none"]
    /\ wpc = [w \in Workers |-> "idle"]
    /\ wl = [w \in Workers |-> NoLocals]
    /\ req = [r \in Reqs |-> NoRequest]
    /\ nops = 0
    /\ execMode = "AGENTIC"
    /\ now = MaxClock
    /\ lockHolder = NoWorker
    /\ call = [w \in Workers |-> NoCall]
    /\ ex = NoExec
    /\ InitLog

CallsMade == LET RECURSIVE Sum(_)
                 Sum(w) == IF w = 0 THEN 0 ELSE call[w].n + Sum(w - 1)
             IN Sum(NWorkers)

\* with self._lock("tasks"): rows = self._read_json(self.tasks_file)
ClaimEnter(w) ==
    /\ call[w].pc = "out"
    /\ CallsMade < MaxCalls
    /\ LockFree(lockHolder)
    /\ lockHolder' = w
    /\ call' = [call EXCEPT ![w].pc = "in", ![w].rows = tasks, ![w].n = @ + 1]
    /\ UNCHANGED <<tasks, runs, notifications, events, processes, proc, wpc, wl,
                   req, nops, execMode, now, detailVars>>

\* the rest of the call: no candidate, return None; or sort, pick, write the
\* rows back; the lock is released on the way out
ClaimExit(w) ==
    /\ call[w].pc = "in"
    /\ tasks' = IF Picked(call[w].rows) = NoTask THEN tasks
                ELSE ClaimedRows(call[w].rows)
    /\ lockHolder' = IF lockHolder = w THEN NoWorker ELSE lockHolder
    /\ call' = [call EXCEPT ![w].pc = "out", ![w].rows = <<>>,
                            ![w].ret = Picked(call[w].rows)]
    /\ UNCHANGED <<runs, notifications, events, processes, proc, wpc, wl, req,
                   nops, execMode, now, detailVars>>

NextClaim ==
    \/ \E w \in Workers : ClaimEnter(w)
    \/ \E w \in Workers : ClaimExit(w)

SpecClaim == InitClaim /\ [][NextClaim]_vars

\* ------------------------------------------------------------ C2 and C7
\* C2: two calls of claim_next_task made by different workers never return
\* the same task: whenever two workers each hold a task returned by their
\* latest call, the two tasks differ.
C2_DistinctClaims ==
    \A w1 \in Workers, w2 \in Workers :
        (w1 # w2 /\ call[w1].ret # NoTask /\ call[w2].ret # NoTask)
            => call[w1].ret # call[w2].ret

\* two workers called while the file held two candidates; each got a task
C2_Witness ==
    \E w1 \in Workers, w2 \in Workers :
        /\ w1 # w2
        /\ call[w1].ret # NoTask
        /\ call[w2].ret # NoTask
        /\ call[w1].n = 1 /\ call[w2].n = 1

\* the candidate rule and the order, stated on the file, not on the code's sort
C7_Cands(rows) ==
    {i \in 1..Len(rows) :
        /\ rows[i].cancel_requested = FALSE
        /\ \/ rows[i].mode = "PLAN" /\ rows[i].status = "TODO"
           \/ rows[i].mode = "EXEC" /\ rows[i].status = "TODO"
           \/ rows[i].mode = "EXEC" /\ rows[i].status = "READY"}

C7_Best(rows, i) ==
    /\ i \in C7_Cands(rows)
    /\ \A j \in C7_Cands(rows) :
        /\ rows[j].priority <= rows[i].priority
        /\ rows[j].priority = rows[i].priority => rows[i].created_at <= rows[j].created_at

\* C7: a call of claim_next_task that finds candidates returns one of highest
\* priority and, among those, of earliest created_at; it sets that row's status
\* to PLAN_RUNNING (mode PLAN) or RUNNING (otherwise) and leaves every other
\* row and every other field as it was; a call that finds no candidate returns
\* None and leaves the file as it was.
C7_ClaimOrder ==
    [][\A w \in Workers :
        (call[w].pc = "in" /\ call'[w].pc = "out") =>
            IF C7_Cands(tasks) = {}
            THEN call'[w].ret = NoTask /\ tasks' = tasks
            ELSE /\ C7_Best(tasks, call'[w].ret)
                 /\ Len(tasks') = Len(tasks)
                 /\ \A i \in 1..Len(tasks) :
                      tasks'[i] =
                        IF i # call'[w].ret THEN tasks[i]
                        ELSE [tasks[i] EXCEPT !.status =
                                IF tasks[i].mode = "PLAN" THEN "PLAN_RUNNING"
                                ELSE "RUNNING"]]_vars

\* a call passed over an earlier, lower-priority candidate (row 1) and took
\* row 2, which is now RUNNING or PLAN_RUNNING
C7_Witness ==
    \E w \in Workers :
        /\ call[w].ret = 2
        /\ call[w].n = 1
        /\ Len(tasks) >= 2
        /\ 1 \in C7_Cands(tasks)
        /\ tasks[1].priority < tasks[2].priority
        /\ tasks[2].status \in {"RUNNING", "PLAN_RUNNING"}

\* ------------------------------------------------- C1, C3, C5, C6, C8 - C10
\* worker w is inside run_task for task t with its agent subprocess spawned
HasAgent(w, t) == wl[w].task = t /\ wpc[w] \in {"stream", "wait"}

\* C1: at any time at most one worker is executing a given task: no two
\* workers have an agent subprocess spawned for the same task.
C1_OneWorkerPerTask ==
    \A t \in TaskIds : \A w1 \in Workers, w2 \in Workers :
        (HasAgent(w1, t) /\ HasAgent(w2, t)) => w1 = w2

\* the step is the update_task of handler r's request `op`, after which the
\* handler goes on to position pc
WriteStep(r, op, pc) ==
    /\ req[r].op = op
    /\ req[r].pc = "write"
    /\ req'[r].pc = pc

\* the step is the update_task of a retry of task t
RetryStep(t) == \E r \in Reqs : WriteStep(r, "retry", "idle") /\ req[r].tid = t

C3_Edges ==
    {<<"TODO", "PLAN_RUNNING">>, <<"TODO", "RUNNING">>, <<"TODO", "CANCELLED">>,
     <<"PLAN_RUNNING", "PLAN_REVIEW">>, <<"PLAN_RUNNING", "FAILED">>,
     <<"PLAN_RUNNING", "CANCELLED">>,
     <<"PLAN_REVIEW", "READY">>, <<"PLAN_REVIEW", "TODO">>,
     <<"PLAN_REVIEW", "CANCELLED">>,
     <<"READY", "RUNNING">>, <<"READY", "CANCELLED">>,
     <<"RUNNING", "REVIEW">>, <<"RUNNING", "FAILED">>, <<"RUNNING", "CANCELLED">>,
     <<"REVIEW", "DONE">>}

\* C3: every change of a task's status follows an edge of the status graph,
\* or is the change to TODO made by a retry.
C3_StatusGraph ==
    [][\A t \in 1..Len(tasks) :
        tasks'[t].status # tasks[t].status =>
            \/ <<tasks[t].status, tasks'[t].status>> \in C3_Edges
            \/ tasks'[t].status = "TODO" /\ RetryStep(t)]_vars

\* C5: the write of cancel_task makes a task that is TODO, READY or
\* PLAN_REVIEW CANCELLED with cancel_requested set, and for a task that is
\* RUNNING or PLAN_RUNNING sets cancel_requested and leaves the status alone.
C5_CancelWrite ==
    [][\A r \in Reqs :
        WriteStep(r, "cancel", "signal") =>
            LET t == req[r].tid IN
            /\ tasks[t].status \in {"TODO", "READY", "PLAN_REVIEW"} =>
                 tasks'[t].status = "CANCELLED" /\ tasks'[t].cancel_requested
            /\ tasks[t].status \in {"RUNNING", "PLAN_RUNNING"} =>
                 tasks'[t].status = tasks[t].status /\ tasks'[t].cancel_requested]_vars

\* C6: the task a worker's claim_next_task returns had cancel_requested
\* false, and cancel_requested goes from true to false only in the write of a
\* retry, of a plan confirm or revise, or in a worker's _mark_review (the
\* transition to REVIEW).
C6_CancelFlag ==
    [][/\ \A w \in Workers :
            (wpc[w] = "idle" /\ wpc'[w] = "create_run") =>
                ~tasks[wl'[w].task].cancel_requested
       /\ \A t \in 1..Len(tasks) :
            (tasks[t].cancel_requested /\ ~tasks'[t].cancel_requested) =>
                \/ \E r \in Reqs :
                     /\ req[r].tid = t
                     /\ \/ WriteStep(r, "retry", "idle")
                        \/ WriteStep(r, "confirm", "idle")
                        \/ WriteStep(r, "revise", "idle")
                \/ /\ tasks'[t].status = "REVIEW"
                   /\ \E w \in Workers :
                        wl[w].task = t /\ wpc[w] = "outcome" /\ wpc'[w] # "outcome"]_vars

\* a task in a claimable status with cancel_requested set stays unclaimed
\* although every worker is idle and runs may still be created; its flag has
\* outlived the run it was set for (there is an ended run)
C6_Witness ==
    \E t \in 1..Len(tasks) :
        /\ tasks[t].cancel_requested
        /\ tasks[t].status = "TODO"
        /\ \A w \in Workers : wpc[w] = "idle"
        /\ Len(runs) < MaxRuns
        /\ \E i \in 1..Len(runs) : runs[i].task_id = t /\ runs[i].ended

\* C8: a task becomes DONE only from REVIEW.
C8_DoneOnlyFromReview ==
    [][\A t \in 1..Len(tasks) :
        (tasks'[t].status = "DONE" /\ tasks[t].status # "DONE") =>
            tasks[t].status = "REVIEW"]_vars

\* the step is mark_done's update_task moving EXEC task t from REVIEW to DONE
\* while its current run has a worktree
DoneStepWithWorktree(t) ==
    /\ \E r \in Reqs : WriteStep(r, "done", "idle") /\ req[r].tid = t
    /\ tasks[t].mode = "EXEC"
    /\ tasks[t].status = "REVIEW"
    /\ tasks'[t].status = "DONE"
    /\ tasks[t].current_run_id # NoRun
    /\ runs[tasks[t].current_run_id].worktree_path # ""

\* C9: when mark-done moves an EXEC task from REVIEW to DONE and its current
\* run has a worktree, the cleanup runs once: one worktree_cleanup event with
\* trigger_status DONE is appended, and unless the cleanup raised (result
\* failed) the result is success and the run's worktree_path is cleared.
C9_DoneCleansWorktree ==
    [][\A t \in 1..Len(tasks) :
        DoneStepWithWorktree(t) =>
            \/ /\ events'[t] = Append(events[t], CleanupEvent("DONE", "success"))
               /\ runs'[tasks[t].current_run_id].worktree_path = ""
            \/ events'[t] = Append(events[t], CleanupEvent("DONE", "failed"))]_vars

\* C10: when the cleanup triggered by mark-done does not remove the worktree
\* (it raised), the task is DONE all the same, the run's worktree_path is as
\* it was and a worktree_cleanup event with trigger_status DONE and result
\* failed is appended.
C10_DoneCleanupFailure ==
    [][\A t \in 1..Len(tasks) :
        (DoneStepWithWorktree(t)
            /\ runs'[tasks[t].current_run_id].worktree_path # "") =>
                /\ tasks'[t].status = "DONE"
                /\ runs'[tasks[t].current_run_id] = runs[tasks[t].current_run_id]
                /\ events'[t] # events[t]
                /\ events'[t][Len(events'[t])] = CleanupEvent("DONE", "failed")]_vars

\* ------------------------------------------------------------------- C4
\* Cancellation of running tasks: tasks are created, workers run them, users
\* cancel them.  Worker threads keep running (every step of run_task returns:
\* the agent exits, or is terminated, or is killed after 15 s), and a handler
\* thread that has entered cancel_task finishes it.
CancelStep(r) ==
    \/ \E t \in TaskIds : CancelRead(r, t)
    \/ CancelWrite(r)
    \/ CancelSignal(r)

NextCancel ==
    \/ \E m \in TaskMode : CreateTask(m, 0, 1)
    \/ \E w \in Workers : WorkerStep(w)
    \/ \E r \in Reqs : CancelStep(r)

SpecCancel ==
    /\ Init
    /\ [][NextCancel]_vars
    /\ \A w \in Workers : WF_vars(WorkerStep(w))
    /\ \A r \in Reqs : WF_vars(CancelWrite(r) \/ CancelSignal(r))

\* cancel has been requested for task t, which is RUNNING or PLAN_RUNNING and
\* whose agent subprocess is running
CancelRequestedWhileRunning(t) ==
    /\ HasTask(tasks, t)
    /\ tasks[t].cancel_requested
    /\ tasks[t].status \in {"RUNNING", "PLAN_RUNNING"}
    /\ \E w \in Workers : wl[w].task = t /\ proc[w] = "alive"

\* task t is CANCELLED with error_code CANCELLED and its subprocess is gone
CancelledAndStopped(t) ==
    /\ HasTask(tasks, t)
    /\ tasks[t].status = "CANCELLED"
    /\ tasks[t].error_code = "CANCELLED"
    /\ \A w \in Workers : wl[w].task = t => proc[w] = "none"

\* C4: once cancel has been requested for a task that is RUNNING or
\* PLAN_RUNNING with its agent subprocess running, the subprocess is stopped
\* and the task becomes CANCELLED with error_code CANCELLED, whatever exit
\* code the process reports, and also when the process ends (or is terminated
\* by the handler) before the stream loop has looked at the flag.
C4_CancelLeadsToCancelled ==
    \A t \in TaskIds : CancelRequestedWhileRunning(t) ~> CancelledAndStopped(t)

\* a task ended CANCELLED / CANCELLED although its agent reported exit code 0
\* and the stream loop never saw the flag (a loop that sees it goes through
\* proc.wait; this worker's process was not terminated by the loop)
C4_Witness ==
    \E t \in 1..Len(tasks) :
        /\ CancelledAndStopped(t)
        /\ tasks[t].current_run_id # NoRun
        /\ runs[tasks[t].current_run_id].ended
        /\ runs[tasks[t].current_run_id].exit_code = 0

\* ------------------------------------------- one run_task, stage by stage
\* TaskRunner.run_task for one claimed task (task 1, run 1), alone: the Git
\* operations and the agent are the environment, each returns or raises.
\* The task row carries pr_url and claude_session_id besides the core fields.
ExecTask == 1

ExecRun == 1

\* what a git_ops call may do: return, raise GitError, raise something else
GitResults == {"ok", "GitError", "Exception"}

\* the error_code of the except clause that catches a raise
ErrorCodeOf(raised) ==
    IF raised = "GitError" THEN "GIT_PIPELINE_FAILED" ELSE "UNEXPECTED_ERROR"

\* what proc.wait() may return for the agent: 0, or one of two failure codes
AgentExitCodes == {0, 1, 2}

\* RepoConfig.github_repo: not set, or "owner/name"
GithubRepos == {"", "owner/name"}

\* (variant: a compare URL whatever github_repo is)
build_compare_url_always(github_repo) == "compare"

\* git_ops.build_compare_url: "" when github_repo has no "/"
build_compare_url(github_repo) ==
    IF github_repo = "owner/name" THEN "compare" ELSE ""

\* The row is the one claim_next_task returned, perhaps with a session id
\* from an earlier run; the worker's snapshot of it has that id, or has none
\* yet when the id was stored after the snapshot was taken.
ExecRow(mode, session) ==
    [NewTask(mode, 0, 1) EXCEPT !.status = ClaimedStatus(mode), !.current_run_id = ExecRun]
        @@ [pr_url |-> "", claude_session_id |-> session]

InitExec ==
    /\ \E mode \in TaskMode, session \in {"", "S1"} :
         /\ tasks = <<ExecRow(mode, session)>>
         /\ ex \in {[NoExec EXCEPT !.pc = "start", !.repo = r, !.session = snap,
                                   !.github_repo = g] :
                        r \in BOOLEAN, snap \in {"", session},
                        g \in IF mode = "EXEC" THEN GithubRepos ELSE {""}}
    /\ runs = <<NewRun(ExecTask)>>
    /\ notifications = [t \in TaskIds |-> <<>>]
    /\ events = [t \in TaskIds |-> <<>>]
    /\ processes = [t \in TaskIds |-> NoWorker]
    /\ proc = [w \in Workers |-> "none"]
    /\ wpc = [w \in Workers |-> "idle"]
    /\ wl = [w \in Workers |-> NoLocals]
    /\ req = [r \in Reqs |-> NoRequest]
    /\ nops = 0
    /\ execMode \in ExecMode
    /\ now = 1
    /\ lockHolder = NoWorker
    /\ call = [w \in Workers |-> NoCall]
    /\ InitLog

execIdle ==
    <<processes, proc, wpc, wl, req, nops, execMode, now, lockHolder, call, logVars,
      sc, alloc, batch, inv, fs, poll>>

\* the task's log with one more event
Logged(e) == [events EXCEPT ![ExecTask] = Append(@, e)]

\* the task's log replaced by `log`
Logged2(log) == [events EXCEPT ![ExecTask] = log]

\* _finish_run and _mark_failed with `code`
ExecFail(code, exit_code) ==
    /\ runs' = finish_run(runs, ExecRun, exit_code)
    /\ tasks' = update_task(tasks, ExecTask, MarkFailedPatch(ExecRun, code))
    /\ notifications' = Notify(ExecTask, "ERROR")

\* where the function goes after a _mark_*: the finally block when inside the
\* try of _run_exec_*, else it returns
ExecLeave == IF tasks[ExecTask].mode = "EXEC" THEN "finally" ELSE "done"

\* "repo = self.store.get_repo(task.repo_id); if not repo:" REPO_NOT_FOUND
XRepoNotFound ==
    /\ ex.pc = "start"
    /\ ~ex.repo
    /\ ExecFail("REPO_NOT_FOUND", 1)
    /\ ex' = [ex EXCEPT !.pc = "done"]
    /\ UNCHANGED <<events, execIdle>>

\* _run_plan: update_run(worktree_path = the repo root)
XPlanStart ==
    /\ ex.pc = "start"
    /\ ex.repo
    /\ tasks[ExecTask].mode = "PLAN"
    /\ runs' = update_run(runs, ExecRun, [worktree_path |-> "wt"])
    /\ ex' = [ex EXCEPT !.pc = "session"]
    /\ UNCHANGED <<tasks, notifications, events, execIdle>>

\* _run_exec_*: create_worktree, update_run, setup_isolated_data (and
\* current_commit); `created`: create_worktree returned; result: of the whole
XWorktree(created, result) ==
    /\ ex.pc = "start"
    /\ ex.repo
    /\ tasks[ExecTask].mode = "EXEC"
    /\ ~created => result # "ok"
    /\ runs' = IF created THEN update_run(runs, ExecRun, [worktree_path |-> "wt"])
               ELSE runs
    /\ ex' = [ex EXCEPT !.worktree = created,
                        !.stages = Append(@, "create_worktree"),
                        !.err = IF result = "ok" THEN "" ELSE result,
                        !.pc = IF result = "ok" THEN "session" ELSE "except"]
    /\ UNCHANGED <<tasks, notifications, events, execIdle>>


\* uuid.uuid4(): an id that is not the one the task had
NewSessionId(old) == IF old = "N1" THEN "N2" ELSE "N1"

\* (variant: the command never resumes)
ClaudeCmdNeverResume(session_id, use_resume) ==
    [flag |-> "--session-id", id |-> session_id]

\* _build_claude_cmd: the session arguments of the command line
ClaudeCmd(session_id, use_resume) ==
    [flag |-> IF use_resume THEN "--resume" ELSE "--session-id", id |-> session_id]

\* _stream_claude, up to the command: _ensure_task_session_id (the id of the
\* snapshot, else the stored id, else a new id written to the task) and the
\* session_resumed / session_created event
XSession ==
    /\ ex.pc = "session"
    /\ LET stored == tasks[ExecTask].claude_session_id
           had == IF ex.session # "" THEN ex.session ELSE stored
           id == IF had # "" THEN had ELSE NewSessionId(stored)
       IN /\ tasks' = IF had # "" THEN tasks
                      ELSE update_task(tasks, ExecTask, [claude_session_id |-> id])
          /\ events' = Logged([type |-> IF had # "" THEN "session_resumed"
                                        ELSE "session_created",
                               session_id |-> id])
          /\ ex' = [ex EXCEPT !.session = id, !.use_resume = (had # ""), !.pc = "agent"]
    /\ UNCHANGED <<runs, notifications, execIdle>>

\* the commits HEAD of the worktree can be at: the baseline captured before
\* the agent ran, or a commit the agent made
Commits == {"base", "new"}

\* baseline_commit = git_ops.current_commit(worktree) before the agent runs
Baseline == "base"

\* (variant: every worktree counts as changed)
has_material_changes_always(dirty, head, baseline) == TRUE

\* git_ops.has_material_changes: a dirty working tree, or HEAD off the baseline
has_material_changes(dirty, head, baseline) == dirty \/ head # baseline

\* (variant: no fallback, whatever the first invocation did)
ShouldFallbackNever(use_resume, cancelled, exit_code, recoverable) == FALSE

\* (variant: the fallback does not ask whether the invocation resumed)
ShouldFallbackAnySession(use_resume, cancelled, exit_code, recoverable) ==
    ~cancelled /\ exit_code # 0 /\ recoverable

\* should_fallback of _stream_claude
ShouldFallback(use_resume, cancelled, exit_code, recoverable) ==
    use_resume /\ ~cancelled /\ exit_code # 0 /\ recoverable

\* _run_claude_cmd as a whole: the process is started with the command and
\* ends; `recoverable`: its output matches a resume-failure pattern
XAgent(code, cancelled, recoverable, dirty, head) ==
    /\ ex.pc = "agent"
    /\ tasks[ExecTask].mode = "PLAN" => ~dirty /\ head = Baseline
    /\ LET first == ex.cmds = <<>>
           again == first /\ ShouldFallback(ex.use_resume, cancelled, code, recoverable)
       IN ex' = [ex EXCEPT !.cmds = Append(@, ClaudeCmd(ex.session,
                                              IF first THEN ex.use_resume ELSE FALSE)),
                           !.exit_code = code, !.cancelled = cancelled,
                           !.results = Append(@, [code |-> code,
                                                  cancelled |-> cancelled,
                                                  recoverable |-> recoverable]),
                           !.dirty = dirty, !.head = head,
                           !.pc = IF again THEN "fallback" ELSE "classify"]
    /\ UNCHANGED <<tasks, runs, notifications, events, execIdle>>

\* the fallback of _stream_claude: session_resume_failed, a new id written to
\* the task, session_fallback_created
XFallback ==
    /\ ex.pc = "fallback"
    /\ LET id == NewSessionId(ex.session) IN
        /\ tasks' = update_task(tasks, ExecTask, [claude_session_id |-> id])
        /\ events' = [events EXCEPT ![ExecTask] = @ \o
              <<[type |-> "session_resume_failed", session_id |-> ex.session],
                [type |-> "session_fallback_created", session_id |-> id]>>]
        /\ ex' = [ex EXCEPT !.session = id, !.pc = "agent"]
    /\ UNCHANGED <<runs, notifications, execIdle>>

\* "if cancelled:" _finish_run, _mark_cancelled
XCancelled ==
    /\ ex.pc = "classify"
    /\ ex.cancelled
    /\ runs' = finish_run(runs, ExecRun, ex.exit_code)
    /\ tasks' = update_task(tasks, ExecTask, MarkCancelledPatch(ExecRun))
    /\ notifications' = Notify(ExecTask, "INFO")
    /\ ex' = [ex EXCEPT !.pc = ExecLeave]
    /\ UNCHANGED <<events, execIdle>>

\* "if exit_code != 0:" _finish_run, _mark_failed
XNonZero ==
    /\ ex.pc = "classify"
    /\ ~ex.cancelled
    /\ ex.exit_code # 0
    /\ ExecFail(IF tasks[ExecTask].mode = "PLAN" THEN "PLAN_EXIT_NONZERO"
                ELSE "EXEC_EXIT_NONZERO", ex.exit_code)
    /\ ex' = [ex EXCEPT !.pc = ExecLeave]
    /\ UNCHANGED <<events, execIdle>>

\* _run_plan, exit code 0: parse_plan, the PLAN_REVIEW update, the INFO
\* notification, _finish_run
XPlanReview ==
    /\ ex.pc = "classify"
    /\ ~ex.cancelled
    /\ ex.exit_code = 0
    /\ tasks[ExecTask].mode = "PLAN"
    /\ tasks' = update_task(tasks, ExecTask, PlanReviewPatch(ExecRun))
    /\ notifications' = Notify(ExecTask, "INFO")
    /\ runs' = finish_run(runs, ExecRun, 0)
    /\ ex' = [ex EXCEPT !.pc = "done"]
    /\ UNCHANGED <<events, execIdle>>


\* subprocess.Popen raises: caught by "except Exception" in _run_exec_*, by
\* Scheduler._safe_run for _run_plan
XAgentRaises ==
    /\ ex.pc = "agent"
    /\ IF tasks[ExecTask].mode = "EXEC"
       THEN /\ ex' = [ex EXCEPT !.err = "Exception", !.pc = "except"]
            /\ tasks' = tasks
       ELSE /\ ex' = [ex EXCEPT !.err = "Exception", !.pc = "done"]
            /\ tasks' = update_task(tasks, ExecTask,
                            [status |-> "FAILED", error_code |-> "SCHEDULER_CRASH"])
    /\ UNCHANGED <<runs, notifications, events, execIdle>>

\* _run_exec_fixed, exit code 0: has_material_changes
XChanges(result) ==
    /\ ex.pc = "classify"
    /\ ~ex.cancelled
    /\ ex.exit_code = 0
    /\ tasks[ExecTask].mode = "EXEC"
    /\ execMode = "FIXED"
    /\ ex' = [ex EXCEPT
          !.err = IF result = "ok" THEN "" ELSE result,
          !.pc = CASE result # "ok" -> "except"
                   [] has_material_changes(ex.dirty, ex.head, Baseline) -> "commit"
                   [] OTHER -> "no_changes"]
    /\ UNCHANGED <<tasks, runs, notifications, events, execIdle>>

\* "if not git_ops.has_material_changes(...)": _finish_run, _mark_failed
XNoChanges ==
    /\ ex.pc = "no_changes"
    /\ ExecFail("NO_CHANGES", 1)
    /\ ex' = [ex EXCEPT !.pc = "finally"]
    /\ UNCHANGED <<events, execIdle>>

\* (variant: the tests run before the rebase)
NextStageTestsFirst(stage) ==
    CASE stage = "commit" -> "tests"
      [] stage = "tests" -> "rebase"
      [] stage = "rebase" -> "push"
      [] stage = "push" -> "pr"

\* the stage after `stage` in _run_exec_fixed
NextStage(stage) ==
    CASE stage = "commit" -> "rebase"
      [] stage = "rebase" -> "tests"
      [] stage = "tests" -> "push"
      [] stage = "push" -> "pr"

\* commit_all, rebase_with_main, run_tests, push_branch: the call returns and
\* the next line runs, or it raises
XStage(result) ==
    /\ ex.pc \in {"commit", "rebase", "tests", "push"}
    /\ ex' = [ex EXCEPT !.stages = Append(@, ex.pc),
                        !.err = IF result = "ok" THEN "" ELSE result,
                        !.pc = IF result = "ok" THEN NextStage(ex.pc) ELSE "except"]
    /\ UNCHANGED <<tasks, runs, notifications, events, execIdle>>

\* create_pr: returns the PR's URL, raises PRCredentialsMissing (then
\* build_compare_url; an empty compare URL raises GitError), or raises
\* something else
XCreatePr(result) ==
    /\ ex.pc = "pr"
    /\ LET compare == IF result = "PRCredentialsMissing"
                      THEN build_compare_url(ex.github_repo) ELSE ""
           fallback == result = "PRCredentialsMissing" /\ compare # ""
           err == CASE result = "ok" -> ""
                    [] result = "PRCredentialsMissing" ->
                         IF compare # "" THEN "" ELSE "GitError"
                    [] OTHER -> result
       IN /\ events' = IF fallback
                       THEN Logged([type |-> "pr_fallback", compare_url |-> compare])
                       ELSE events
          /\ ex' = [ex EXCEPT !.stages = Append(@, "pr"),
                              !.create_pr = result,
                              !.err = err,
                              !.pr_url = IF result = "ok" THEN "pr" ELSE compare,
                              !.pc = IF err = "" THEN "review" ELSE "except"]
    /\ UNCHANGED <<tasks, runs, notifications, execIdle>>

\* _run_exec_agentic, exit code 0: _extract_pr_url (the PR URL in the agent's
\* text, else the compare URL, which may be "")
XExtractPr(found) ==
    /\ ex.pc = "classify"
    /\ ~ex.cancelled
    /\ ex.exit_code = 0
    /\ tasks[ExecTask].mode = "EXEC"
    /\ execMode = "AGENTIC"
    /\ ex' = [ex EXCEPT !.pr_url = IF found THEN "pr"
                                     ELSE build_compare_url(ex.github_repo),
                        !.pc = "review"]
    /\ UNCHANGED <<tasks, runs, notifications, events, execIdle>>

\* _mark_review(task, run_id, pr_url), _finish_run
XReview ==
    /\ ex.pc = "review"
    /\ tasks' = update_task(tasks, ExecTask,
                    MarkReviewPatch(ExecRun) @@ [pr_url |-> ex.pr_url])
    /\ notifications' = Notify(ExecTask, "SUCCESS")
    /\ runs' = finish_run(runs, ExecRun, 0)
    /\ ex' = [ex EXCEPT !.pc = "finally"]
    /\ UNCHANGED <<events, execIdle>>

\* "except git_ops.GitError" / "except Exception": _finish_run, _mark_failed
XExcept ==
    /\ ex.pc = "except"
    /\ ExecFail(ErrorCodeOf(ex.err), 1)
    /\ ex' = [ex EXCEPT !.pc = "finally"]
    /\ UNCHANGED <<events, execIdle>>

\* the finally block: nothing without a worktree; get_task, and for a FAILED
\* or CANCELLED task snapshot_worktree, then cleanup_worktree
XFinally(snapOk, cleanOk) ==
    /\ ex.pc = "finally"
    /\ LET st == tasks[ExecTask].status
           clean == ex.worktree /\ st \in {"FAILED", "CANCELLED"}
       IN /\ ~clean => snapOk /\ cleanOk
          /\ runs' = IF clean THEN CleanupRuns(runs, ExecRun, TRUE, snapOk, cleanOk)
                     ELSE runs
          /\ events' = IF clean
                       THEN Logged2(CleanupLog(events[ExecTask], runs, ExecRun, st,
                                               TRUE, snapOk, cleanOk))
                       ELSE events
          /\ ex' = [ex EXCEPT !.pc = "done",
                              !.stages = IF clean THEN @ \o <<"snapshot", "cleanup">>
                                         ELSE @]
    /\ UNCHANGED <<tasks, notifications, execIdle>>

NextExec ==
    \/ XRepoNotFound
    \/ XPlanStart
    \/ \E created \in BOOLEAN, result \in GitResults : XWorktree(created, result)
    \/ XSession
    \/ \E code \in AgentExitCodes, cancelled \in BOOLEAN, recoverable \in BOOLEAN,
          dirty \in BOOLEAN, head \in Commits :
          XAgent(code, cancelled, recoverable, dirty, head)
    \/ XAgentRaises
    \/ XFallback
    \/ XCancelled
    \/ XNonZero
    \/ XPlanReview
    \/ \E result \in GitResults : XChanges(result)
    \/ XNoChanges
    \/ \E result \in GitResults : XStage(result)
    \/ \E result \in GitResults \cup {"PRCredentialsMissing"} : XCreatePr(result)
    \/ \E found \in BOOLEAN : XExtractPr(found)
    \/ XReview
    \/ XExcept
    \/ \E snapOk \in BOOLEAN, cleanOk \in BOOLEAN : XFinally(snapOk, cleanOk)

SpecExec == InitExec /\ [][NextExec]_vars


\* ------------------------------------------------------------------ C11
\* the last n elements of a sequence
LastN(s, n) == IF Len(s) < n THEN <<>> ELSE SubSeq(s, Len(s) - n + 1, Len(s))

\* the EXEC run has returned and it had created its worktree
ExecEnded == ex.pc = "done" /\ tasks[ExecTask].mode = "EXEC" /\ ex.worktree

CleanSuccess ==
    /\ ExecEnded
    /\ ex.exit_code = 0 /\ ~ex.cancelled /\ ex.err = ""
    /\ ~ex.dirty /\ ex.head = Baseline

\* the task failed with NO_CHANGES and its worktree was snapshotted and cleaned
FailedNoChanges ==
    /\ tasks[ExecTask].status = "FAILED"
    /\ tasks[ExecTask].error_code = "NO_CHANGES"
    /\ LastN(ex.stages, 2) = <<"snapshot", "cleanup">>

\* C12 as stated: in whichever exec mode, an EXEC agent that exits 0 without
\* a cancel and leaves the worktree clean with HEAD at the baseline ends with
\* the task FAILED with NO_CHANGES, never REVIEW, its worktree snapshotted
\* and cleaned.
C12_NoChangesAnyMode == CleanSuccess => FailedNoChanges

\* C12 amended: that outcome is the FIXED mode's; in AGENTIC mode the same
\* run ends with the task in REVIEW and the worktree kept.
C12_NoChangesFixedOnly ==
    CleanSuccess =>
        /\ execMode = "FIXED" => FailedNoChanges
        /\ execMode = "AGENTIC" =>
              /\ tasks[ExecTask].status = "REVIEW"
              /\ runs[ExecRun].worktree_path # ""

\* a FIXED run that failed with NO_CHANGES and whose worktree is gone
C12_Witness ==
    /\ CleanSuccess
    /\ execMode = "FIXED"
    /\ FailedNoChanges
    /\ runs[ExecRun].worktree_path = ""


\* ------------------------------------------------------------------ C13
\* the stages of the FIXED pipeline, in the order of the claim
PipelineOrder == <<"commit", "rebase", "tests", "push", "pr">>

RECURSIVE Pipeline(_)
\* the pipeline stages among the stages a run went through, in their order
Pipeline(stages) ==
    IF stages = <<>> THEN <<>>
    ELSE IF Head(stages) \in {"commit", "rebase", "tests", "push", "pr"}
         THEN <<Head(stages)>> \o Pipeline(Tail(stages))
         ELSE Pipeline(Tail(stages))

IsPrefix(s, t) == Len(s) <= Len(t) /\ s = SubSeq(t, 1, Len(s))

FixedRun == tasks[ExecTask].mode = "EXEC" /\ execMode = "FIXED"

C13_Order ==
    FixedRun =>
        /\ IsPrefix(Pipeline(ex.stages), PipelineOrder)
        /\ tasks[ExecTask].status = "REVIEW" => Len(Pipeline(ex.stages)) >= 4
        /\ ex.pc \in {"finally", "done"} /\ ex.err = "GitError" =>
              /\ tasks[ExecTask].status = "FAILED"
              /\ tasks[ExecTask].error_code = "GIT_PIPELINE_FAILED"
        /\ ex.pc \in {"finally", "done"} /\ ex.err = "Exception" =>
              /\ tasks[ExecTask].status = "FAILED"
              /\ tasks[ExecTask].error_code = "UNEXPECTED_ERROR"

C13_Stop == ex.err # "" => Pipeline(ex'.stages) = Pipeline(ex.stages)

\* C13: in FIXED mode the stages run in the order commit, rebase, tests, push,
\* PR creation, each only when all earlier ones returned; a stage that raises
\* a Git error ends the task FAILED with GIT_PIPELINE_FAILED (any other
\* exception: UNEXPECTED_ERROR) and no later stage runs; the task is in
\* REVIEW only when the push has returned.
C13_FixedPipeline == []C13_Order /\ [][C13_Stop]_vars

\* a FIXED run whose tests raised a Git error after commit and rebase
C13_Witness ==
    /\ FixedRun
    /\ ex.pc = "done"
    /\ Pipeline(ex.stages) = <<"commit", "rebase", "tests">>
    /\ ex.err = "GitError"
    /\ tasks[ExecTask].error_code = "GIT_PIPELINE_FAILED"


\* ------------------------------------------------------------------ C14
\* create_pr of the FIXED run raised PRCredentialsMissing (so the push had
\* returned) and the run has been classified
CredentialsMissing ==
    /\ FixedRun
    /\ ex.pc \in {"finally", "done"}
    /\ ex.create_pr = "PRCredentialsMissing"

\* the task is in REVIEW with the compare URL and the log has the pr_fallback event
FellBack ==
    /\ tasks[ExecTask].status = "REVIEW"
    /\ tasks[ExecTask].pr_url = "compare"
    /\ \E i \in 1..Len(events[ExecTask]) :
          events[ExecTask][i] = [type |-> "pr_fallback", compare_url |-> "compare"]

NonZeroExit ==
    /\ ex.pc \in {"finally", "done"}
    /\ ex.cmds # <<>> /\ ex.err = ""
    /\ ~ex.cancelled
    /\ ex.exit_code # 0

\* C15: after a non-zero agent exit that is not a cancel the run function
\* returns normally with the task FAILED, error code PLAN_EXIT_NONZERO for a
\* PLAN run and EXEC_EXIT_NONZERO for an EXEC run in either exec mode; the run
\* has the agent's exit code and is ended; no commit, push or PR stage ran.
C15_NonZeroExit ==
    NonZeroExit =>
        /\ tasks[ExecTask].status = "FAILED"
        /\ tasks[ExecTask].error_code =
              (IF tasks[ExecTask].mode = "PLAN" THEN "PLAN_EXIT_NONZERO"
               ELSE "EXEC_EXIT_NONZERO")
        /\ runs[ExecRun].ended
        /\ runs[ExecRun].exit_code = ex.exit_code
        /\ Pipeline(ex.stages) = <<>>
        /\ tasks[ExecTask].pr_url = ""

\* an AGENTIC run that ended with exit code 2
C15_Witness ==
    /\ NonZeroExit
    /\ ex.pc = "done"
    /\ tasks[ExecTask].mode = "EXEC" /\ execMode = "AGENTIC"
    /\ ex.exit_code = 2
    /\ runs[ExecRun].exit_code = 2
    /\ tasks[ExecTask].error_code = "EXEC_EXIT_NONZERO"


\* ------------------------------------------------------------------ C16
\* the step of a PLAN run that classifies an agent exit of 0 without cancel
PlanSuccessStep ==
    /\ ex.pc = "classify" /\ ex'.pc # "classify"
    /\ tasks[ExecTask].mode = "PLAN"
    /\ ~ex.cancelled /\ ex.exit_code = 0

\* C16: a PLAN run whose agent exits 0 without cancel moves the task from
\* PLAN_RUNNING to PLAN_REVIEW and stores the parsed plan in plan_result in
\* that same write, leaves the error code empty, and appends one INFO
\* notification for the task.
C16_PlanReview ==
    [][PlanSuccessStep =>
          /\ tasks[ExecTask].status = "PLAN_RUNNING"
          /\ ~tasks[ExecTask].plan_result
          /\ tasks'[ExecTask].status = "PLAN_REVIEW"
          /\ tasks'[ExecTask].plan_result
          /\ tasks'[ExecTask].error_code = ""
          /\ notifications'[ExecTask] = Append(notifications[ExecTask], "INFO")]_vars

\* a PLAN run that ended with the task in PLAN_REVIEW
C16_Witness ==
    /\ ex.pc = "done"
    /\ tasks[ExecTask].mode = "PLAN"
    /\ ex.exit_code = 0 /\ ~ex.cancelled /\ ex.err = ""
    /\ tasks[ExecTask].status = "PLAN_REVIEW"
    /\ tasks[ExecTask].plan_result
    /\ notifications[ExecTask] = <<"INFO">>


\* ------------------------------------------------------------------ C17
\* C17: in every state reachable through create, claim, run, cancel, retry,
\* confirm, revise and done, every task whose status is PLAN_REVIEW has a
\* plan_result.
C17_PlanReviewHasPlan ==
    \A t \in TaskIds :
        HasTask(tasks, t) /\ tasks[t].status = "PLAN_REVIEW" => tasks[t].plan_result

\* a task that a PLAN run left in PLAN_REVIEW, its run ended
C17_Witness ==
    \E t \in TaskIds :
        /\ HasTask(tasks, t)
        /\ tasks[t].status = "PLAN_REVIEW"
        /\ tasks[t].plan_result
        /\ tasks[t].current_run_id # NoRun
        /\ runs[tasks[t].current_run_id].ended


\* ======================================================================
\* SpecEvents: the event log of one task. append_event is taken step by step
\* inside its log lock; read_events and the janitor's cleanup_old_logs take
\* no lock.
\* ======================================================================

\* Settings.logs_retention_days
logs_retention_days == 30

Max2(a, b) == IF a >= b THEN a ELSE b

RECURSIVE NextSeq(_, _)
\* append_event's scan: next_seq = max(next_seq, int(row.get("seq", 0)) + 1)
NextSeq(lines, next_seq) ==
    IF lines = <<>> THEN next_seq
    ELSE NextSeq(Tail(lines), Max2(next_seq, Head(lines).seq + 1))

\* _lock("log-<task>"): free when nobody holds the flock
LogLockFree(holder) == holder = NoWorker

\* (variant: events at the cursor are returned too)
AfterCursorOrAt(seq, cursor) == seq >= cursor

\* read_events: "if seq > cursor"
AfterCursor(seq, cursor) == seq > cursor

RECURSIVE ScanEvents(_, _, _, _)
\* read_events' loop over the lines of the file
ScanEvents(lines, cursor, evs, max_cursor) ==
    IF lines = <<>> THEN [events |-> evs, next_cursor |-> max_cursor]
    ELSE LET row == Head(lines)
         IN ScanEvents(Tail(lines), cursor,
                       IF AfterCursor(row.seq, cursor) THEN Append(evs, row) ELSE evs,
                       Max2(max_cursor, row.seq))

\* read_events(task_id, cursor) on the file as it is
read_events(file, cursor) ==
    IF ~file.exists THEN [events |-> <<>>, next_cursor |-> cursor]
    ELSE ScanEvents(file.lines, cursor, <<>>, cursor)

eventIdle ==
    <<tasks, runs, notifications, events, processes, proc, wpc, wl, req, nops,
      execMode, now, lockHolder, call, ex, sc, alloc, batch, inv, fs, poll>>

InitEvents ==
    /\ tasks = <<>>
    /\ runs = <<>>
    /\ notifications = [t \in TaskIds |-> <<>>]
    /\ events = [t \in TaskIds |-> <<>>]
    /\ processes = [t \in TaskIds |-> NoWorker]
    /\ proc = [w \in Workers |-> "none"]
    /\ wpc = [w \in Workers |-> "idle"]
    /\ wl = [w \in Workers |-> NoLocals]
    /\ req = [r \in Reqs |-> NoRequest]
    /\ nops = 0
    /\ execMode = "AGENTIC"
    /\ now = 0
    /\ lockHolder = NoWorker
    /\ call = [w \in Workers |-> NoCall]
    /\ ex = NoExec
    /\ InitLog

\* append_event: the flock is taken and file_path.exists() evaluated
AppendEnter(a) ==
    /\ appender[a].pc = "out"
    /\ LogLockFree(logLock)
    /\ NextSeq(logFile.lines, 1) <= MaxSeq
    /\ logLock' = a
    /\ appender' = [appender EXCEPT ![a] = [pc |-> "locked", saw |-> logFile.exists,
                                            next_seq |-> 1]]
    /\ UNCHANGED <<logFile, reader, eventIdle>>

\* append_event: the file is opened and scanned for the highest seq; open
\* raises FileNotFoundError when the file went away after exists()
AppendRead(a) ==
    /\ appender[a].pc = "locked"
    /\ IF appender[a].saw /\ ~logFile.exists
       THEN /\ appender' = [appender EXCEPT ![a] = NoAppend]
            /\ logLock' = NoWorker
       ELSE /\ appender' = [appender EXCEPT
                   ![a].pc = "write",
                   ![a].next_seq = IF appender[a].saw THEN NextSeq(logFile.lines, 1)
                                   ELSE 1]
            /\ logLock' = logLock
    /\ UNCHANGED <<logFile, reader, eventIdle>>

\* append_event: the entry is appended (open "a" creates the file when it
\* is not there), the flock is released, next_seq returned
AppendWrite(a) ==
    /\ appender[a].pc = "write"
    /\ logFile' = [exists |-> TRUE,
                   lines |-> Append(logFile.lines,
                                    [seq |-> appender[a].next_seq, by |-> a]),
                   old |-> FALSE]
    /\ logLock' = NoWorker
    /\ appender' = [appender EXCEPT ![a] = NoAppend]
    /\ UNCHANGED <<reader, eventIdle>>

\* time passes while no append_event call is under way: the file's mtime is
\* now more than the retention time back
LogAges ==
    /\ logFile.exists
    /\ ~logFile.old
    /\ \A a \in Appenders : appender[a].pc = "out"
    /\ logFile' = [logFile EXCEPT !.old = TRUE]
    /\ UNCHANGED <<logLock, appender, reader, eventIdle>>

\* the janitor: cleanup_old_logs(logs_retention_days) unlinks the old file
cleanup_old_logs ==
    /\ logs_retention_days > 0
    /\ logFile.exists
    /\ logFile.old
    /\ logFile' = NoLog
    /\ UNCHANGED <<logLock, appender, reader, eventIdle>>

\* GET /api/tasks/{id}/events?cursor=...: read_events
ReadEvents(cursor) ==
    /\ LET res == read_events(logFile, cursor)
       IN reader' = [called |-> TRUE, cursor |-> cursor, file |-> logFile,
                     events |-> res.events, next_cursor |-> res.next_cursor]
    /\ UNCHANGED <<logFile, logLock, appender, eventIdle>>

NextEvents ==
    \/ \E a \in Appenders : AppendEnter(a)
    \/ \E a \in Appenders : AppendRead(a)
    \/ \E a \in Appenders : AppendWrite(a)
    \/ LogAges
    \/ cleanup_old_logs
    \/ \E cursor \in 0..MaxSeq : ReadEvents(cursor)

SpecEvents == InitEvents /\ [][NextEvents]_vars

\* ------------------------------------------------------------------ C18
\* C18: the seq values of a task's event log are exactly 1..K in order, with
\* no gap and no duplicate, after any interleaving of append_event calls and
\* the janitor's cleanup_old_logs.
C18_SeqContiguous ==
    \A i \in 1..Len(logFile.lines) : logFile.lines[i].seq = i


\* ------------------------------------------------------------------ C19
\* the highest seq among the lines, or `least` when none is higher
HighestSeq(lines, least) ==
    LET seqs == {lines[i].seq : i \in 1..Len(lines)} \cup {least}
    IN CHOOSE m \in seqs : \A n \in seqs : n <= m

\* C19: read_events(task, cursor) returns exactly the logged events with
\* seq > cursor, in log order, and next_cursor = the maximum of cursor and the
\* highest seq in the log; so next_cursor >= cursor, and for a task without a
\* log it returns no events and the cursor itself.
C19_ReadEvents ==
    reader.called =>
        /\ reader.events =
              SelectSeq(reader.file.lines, LAMBDA row : row.seq > reader.cursor)
        /\ reader.next_cursor = HighestSeq(reader.file.lines, reader.cursor)
        /\ reader.next_cursor >= reader.cursor
        /\ ~reader.file.exists =>
              reader.events = <<>> /\ reader.next_cursor = reader.cursor

\* a read with cursor 1 of a log of three events
C19_Witness ==
    /\ reader.called
    /\ reader.cursor = 1
    /\ Len(reader.file.lines) = 3
    /\ Len(reader.events) = 2
    /\ reader.events[1].seq = 2
    /\ reader.next_cursor = 3


\* ------------------------------------------------------------------ C20
\* the session id the task has on entry to _stream_claude ("" when none)
SessionOnEntry ==
    IF ex.session # "" THEN ex.session ELSE tasks[ExecTask].claude_session_id

\* the step of _stream_claude that settles the session before the command
C20_SessionStep ==
    ex.pc = "session" /\ ex'.pc = "agent" =>
        IF SessionOnEntry # ""
        THEN /\ ex'.session = SessionOnEntry
             /\ ex'.use_resume
             /\ tasks' = tasks
             /\ events'[ExecTask] = Append(events[ExecTask],
                   [type |-> "session_resumed", session_id |-> SessionOnEntry])
        ELSE /\ ex'.session \notin {"", "S1"}
             /\ ~ex'.use_resume
             /\ tasks'[ExecTask].claude_session_id = ex'.session
             /\ events'[ExecTask] = Append(events[ExecTask],
                   [type |-> "session_created", session_id |-> ex'.session])

\* the step that starts the first agent process of the invocation
C20_StartStep ==
    ex.pc = "agent" /\ ex.cmds = <<>> /\ ex'.cmds # <<>> =>
        /\ ex'.cmds[1].id = tasks[ExecTask].claude_session_id
        /\ ex'.cmds[1].id = ex.session
        /\ ex'.cmds[1].flag = (IF ex.use_resume THEN "--resume" ELSE "--session-id")

\* C20: on entry to an agent invocation, a task that already has a session id
\* gets a session_resumed event and a command with --resume and that id; a
\* task without one gets a new id, written to the task before the process is
\* started, a session_created event, and a command with --session-id and the
\* id that was written.
C20_SessionOnEntry == [][C20_SessionStep /\ C20_StartStep]_vars

\* an agent started with --session-id and a new id the task already holds
C20_Witness ==
    /\ ex.cmds # <<>>
    /\ ex.cmds[1] = [flag |-> "--session-id", id |-> "N1"]
    /\ tasks[ExecTask].claude_session_id = "N1"
    /\ \E i \in 1..Len(events[ExecTask]) :
          events[ExecTask][i] = [type |-> "session_created", session_id |-> "N1"]


\* ------------------------------------------------------------------ C21
\* the first invocation of the call used --resume, was not cancelled, exited
\* non-zero and its text matches a resume-failure pattern
FallbackDue ==
    /\ ex.results # <<>>
    /\ ex.cmds[1].flag = "--resume"
    /\ ~ex.results[1].cancelled
    /\ ex.results[1].code # 0
    /\ ex.results[1].recoverable

\* the log holds session_resume_failed for `old` directly followed by
\* session_fallback_created for `new`
FallbackLogged(old, new) ==
    \E i \in 1..(Len(events[ExecTask]) - 1) :
        /\ events[ExecTask][i] = [type |-> "session_resume_failed", session_id |-> old]
        /\ events[ExecTask][i + 1] =
              [type |-> "session_fallback_created", session_id |-> new]

\* C21: when a --resume invocation is not cancelled, exits non-zero and its
\* text matches a resume-failure pattern, session_resume_failed is logged, the
\* task's claude_session_id is replaced by a new id different from the old
\* one, session_fallback_created is logged, then the agent is invoked again
\* with --session-id and exactly the id stored on the task; what the second
\* invocation returns is what the call returns.
C21_ResumeFallback ==
    FallbackDue /\ ex.pc # "fallback" =>
        LET old == ex.cmds[1].id
            new == tasks[ExecTask].claude_session_id
        IN /\ new \notin {"", old}
           /\ FallbackLogged(old, new)
           /\ ex.session = new
           /\ Len(ex.cmds) = 2 =>
                 ex.cmds[2] = [flag |-> "--session-id", id |-> new]
           /\ ex.pc # "agent" /\ ex.err = "" =>
                 /\ Len(ex.cmds) = 2 /\ Len(ex.results) = 2
                 /\ ex.exit_code = ex.results[2].code
                 /\ ex.cancelled = ex.results[2].cancelled

\* a call whose resume failed and whose second invocation exited 0
C21_Witness ==
    /\ FallbackDue
    /\ ex.pc = "done"
    /\ Len(ex.cmds) = 2
    /\ ex.cmds[1] = [flag |-> "--resume", id |-> "S1"]
    /\ ex.cmds[2] = [flag |-> "--session-id", id |-> "N1"]
    /\ ex.results[2].code = 0
    /\ tasks[ExecTask].claude_session_id = "N1"

\* ------------------------------------------------------------------ C22
\* C22: if the first invocation used --session-id, or was cancelled, or exited
\* 0, or its text matches no resume-failure pattern, the agent is invoked
\* exactly once, no session_resume_failed or session_fallback_created event is
\* logged and the stored session id is the one of that invocation; no call
\* invokes the agent more than twice.
C22_FallbackOnlyOnce ==
    /\ Len(ex.cmds) <= 2
    /\ ex.results # <<>> /\ ~FallbackDue =>
          /\ Len(ex.cmds) = 1
          /\ ex.pc \notin {"agent", "fallback"}
          /\ \A i \in 1..Len(events[ExecTask]) :
                events[ExecTask][i].type \notin
                    {"session_resume_failed", "session_fallback_created"}
          /\ tasks[ExecTask].claude_session_id = ex.cmds[1].id

\* a call whose resumed invocation failed with another kind of error
C22_Witness ==
    /\ ex.pc = "done"
    /\ Len(ex.cmds) = 1
    /\ ex.cmds[1].flag = "--resume"
    /\ ex.results[1] = [code |-> 1, cancelled |-> FALSE, recoverable |-> FALSE]
    /\ tasks[ExecTask].claude_session_id = "S1"


\* ======================================================================
\* SpecSession: the session id of one task. Each worker claims the task when
\* it is a candidate and goes through _stream_claude step by step
\* (_ensure_task_session_id: get_task, then uuid4 and update_task); the
\* handlers write their patches in between.
\* ======================================================================

\* str(uuid.uuid4()): an id nobody had before, one per worker and place
uuid4(w, place) ==
    CASE place = "ensure" /\ w = 1 -> "N1"
      [] place = "ensure" /\ w # 1 -> "N2"
      [] place = "fallback" /\ w = 1 -> "F1"
      [] OTHER -> "F2"

sessionIdle ==
    <<runs, notifications, processes, proc, wpc, wl, req, nops, execMode, now,
      lockHolder, call, ex, logVars, alloc, batch, inv, fs, poll>>

InitSession ==
    /\ \E mode \in TaskMode, session \in {"", "S1"} :
          tasks = <<NewTask(mode, 0, 1) @@ [pr_url |-> "", claude_session_id |-> session]>>
    /\ runs = <<NewRun(ExecTask)>>
    /\ notifications = [t \in TaskIds |-> <<>>]
    /\ events = [t \in TaskIds |-> <<>>]
    /\ processes = [t \in TaskIds |-> NoWorker]
    /\ proc = [w \in Workers |-> "none"]
    /\ wpc = [w \in Workers |-> "idle"]
    /\ wl = [w \in Workers |-> NoLocals]
    /\ req = [r \in Reqs |-> NoRequest]
    /\ nops = 0
    /\ execMode = "AGENTIC"
    /\ now = 1
    /\ lockHolder = NoWorker
    /\ call = [w \in Workers |-> NoCall]
    /\ ex = NoExec
    /\ InitLog

\* claim_next_task returns the task: the worker's snapshot has its session id
SClaim(w) ==
    /\ sc[w].pc = "out"
    /\ IsCandidate(tasks[ExecTask])
    /\ tasks' = update_task(tasks, ExecTask,
                    [status |-> ClaimedStatus(tasks[ExecTask].mode)])
    /\ sc' = [sc EXCEPT ![w] = [NoSessionCall EXCEPT
                  !.pc = "ensure", !.snap = tasks[ExecTask].claude_session_id]]
    /\ UNCHANGED <<events, sessionIdle>>

\* _ensure_task_session_id: the id of the snapshot, else the id get_task finds
EnsureRead(w) ==
    /\ sc[w].pc = "ensure"
    /\ LET latest == tasks[ExecTask].claude_session_id
           id == IF sc[w].snap # "" THEN sc[w].snap ELSE latest
       IN sc' = [sc EXCEPT ![w].id = id,
                           ![w].pc = IF id # "" THEN "event" ELSE "mint"]
    /\ UNCHANGED <<tasks, events, sessionIdle>>

\* _ensure_task_session_id: uuid4, update_task; the id of the returned row
EnsureMint(w) ==
    /\ sc[w].pc = "mint"
    /\ tasks' = update_task(tasks, ExecTask, [claude_session_id |-> uuid4(w, "ensure")])
    /\ sc' = [sc EXCEPT ![w].id = tasks'[ExecTask].claude_session_id,
                        ![w].created = TRUE, ![w].pc = "event"]
    /\ UNCHANGED <<events, sessionIdle>>

\* _stream_claude: session_created / session_resumed
SessionEvent(w) ==
    /\ sc[w].pc = "event"
    /\ events' = Logged([type |-> IF sc[w].created THEN "session_created"
                                  ELSE "session_resumed",
                         session_id |-> sc[w].id])
    /\ sc' = [sc EXCEPT ![w].pc = "agent"]
    /\ UNCHANGED <<tasks, sessionIdle>>

\* _stream_claude: the first _run_claude_cmd returns
SessionAgent(w, code, cancelled, recoverable) ==
    /\ sc[w].pc = "agent"
    /\ sc' = [sc EXCEPT
          ![w].code = code, ![w].cancelled = cancelled,
          ![w].pc = IF ShouldFallback(~sc[w].created, cancelled, code, recoverable)
                    THEN "fallback" ELSE "ended"]
    /\ UNCHANGED <<tasks, events, sessionIdle>>

\* the fallback: session_resume_failed, uuid4, update_task
FallbackWrite(w) ==
    /\ sc[w].pc = "fallback"
    /\ events' = Logged([type |-> "session_resume_failed", session_id |-> sc[w].id])
    /\ tasks' = update_task(tasks, ExecTask, [claude_session_id |-> uuid4(w, "fallback")])
    /\ sc' = [sc EXCEPT ![w].id = tasks'[ExecTask].claude_session_id,
                        ![w].pc = "fallback_event"]
    /\ UNCHANGED sessionIdle

\* the fallback: session_fallback_created, the second _run_claude_cmd returns
FallbackEvent(w, code, cancelled) ==
    /\ sc[w].pc = "fallback_event"
    /\ events' = Logged([type |-> "session_fallback_created", session_id |-> sc[w].id])
    /\ sc' = [sc EXCEPT ![w].code = code, ![w].cancelled = cancelled,
                        ![w].pc = "ended"]
    /\ UNCHANGED <<tasks, sessionIdle>>

\* the run's last write: _mark_cancelled, _mark_failed, the PLAN_REVIEW
\* update or _mark_review
SessionOutcome(w) ==
    /\ sc[w].pc = "ended"
    /\ LET plan == tasks[ExecTask].mode = "PLAN"
           patch == CASE sc[w].cancelled -> MarkCancelledPatch(ExecRun)
                      [] ~sc[w].cancelled /\ sc[w].code # 0 ->
                           MarkFailedPatch(ExecRun, IF plan THEN "PLAN_EXIT_NONZERO"
                                                    ELSE "EXEC_EXIT_NONZERO")
                      [] OTHER -> IF plan THEN PlanReviewPatch(ExecRun)
                                  ELSE MarkReviewPatch(ExecRun)
       IN tasks' = update_task(tasks, ExecTask, patch)
    /\ sc' = [sc EXCEPT ![w].pc = "done"]
    /\ UNCHANGED <<events, sessionIdle>>

\* a handler's write: cancel, retry, done, confirm or revise
SessionUser(op) ==
    /\ LET st == tasks[ExecTask].status
       IN CASE op = "cancel" ->
                 tasks' = update_task(tasks, ExecTask, CancelPatch(st))
            [] op = "retry" ->
                 tasks' = update_task(tasks, ExecTask, RetryPatch(tasks[ExecTask].mode))
            [] op = "done" ->
                 st = "REVIEW" /\ tasks' = update_task(tasks, ExecTask, DonePatch)
            [] op = "confirm" ->
                 st = "PLAN_REVIEW" /\ tasks' = update_task(tasks, ExecTask, ConfirmPatch)
            [] OTHER ->
                 st = "PLAN_REVIEW" /\ tasks' = update_task(tasks, ExecTask, RevisePatch)
    /\ UNCHANGED <<events, sc, sessionIdle>>

NextSession ==
    \/ \E w \in Workers : SClaim(w)
    \/ \E w \in Workers : EnsureRead(w)
    \/ \E w \in Workers : EnsureMint(w)
    \/ \E w \in Workers : SessionEvent(w)
    \/ \E w \in Workers, code \in ExitCodes, cancelled \in BOOLEAN,
          recoverable \in BOOLEAN : SessionAgent(w, code, cancelled, recoverable)
    \/ \E w \in Workers : FallbackWrite(w)
    \/ \E w \in Workers, code \in ExitCodes, cancelled \in BOOLEAN :
          FallbackEvent(w, code, cancelled)
    \/ \E w \in Workers : SessionOutcome(w)
    \/ \E op \in {"cancel", "retry", "done", "confirm", "revise"} : SessionUser(op)

SpecSession == InitSession /\ [][NextSession]_vars

\* ------------------------------------------------------------------ C23
\* C23: once a task's claude_session_id is set, no operation clears it, and
\* its value changes only in the resume-fallback path.
C23_SessionIdKept ==
    [][tasks[ExecTask].claude_session_id # "" =>
          /\ tasks'[ExecTask].claude_session_id # ""
          /\ tasks'[ExecTask].claude_session_id # tasks[ExecTask].claude_session_id =>
                \E w \in Workers :
                    sc[w].pc = "fallback" /\ sc'[w].pc = "fallback_event"]_vars

\* ------------------------------------------------------------------ C24
\* both workers found no session id and each minted one
BothMinted ==
    \A w \in Workers : sc[w].created /\ sc[w].pc \in {"event", "agent"}

\* C24: when two calls for the same task both find no session id and each
\* mint a UUID, both callers end up using the same session id, the one
\* stored on the task.
C24_FirstWriteWins ==
    BothMinted =>
        \A w \in Workers : sc[w].id = tasks[ExecTask].claude_session_id


\* ======================================================================
\* SpecIds: _next_id, called with every set of existing ids over a small
\* universe of ids and every second of the clock.
\* ======================================================================

MaxSerial == 2     \* serials of existing ids are drawn from 1..MaxSerial
MaxSecond == 1     \* the call starts at a second in 0..MaxSecond

\* the day of datetime.now() during the call, and the day before
Today == 2

\* an id of the form YYMMDD-NNN
SerialId(day, n) == [form |-> "serial", day |-> day, n |-> n]

\* an id of the form YYMMDD_HHMMSS: strftime("%y%m%d_%H%M%S")
StampId(day, sec) == [form |-> "stamp", day |-> day, sec |-> sec]

\* _next_id's default max_wait_seconds
max_wait_seconds == 3

\* the ids a store may hold when _next_id is called
IdUniverse ==
    {SerialId(d, n) : d \in {Today - 1, Today}, n \in 1..MaxSerial}
        \cup {StampId(Today, s) : s \in 0..(MaxSecond + max_wait_seconds)}

RECURSIVE next_id(_, _, _)
\* _next_id: the timestamp of now when it is free, else wait for the next
\* second, until the deadline: RuntimeError
next_id(existing_ids, sec, waited) ==
    IF StampId(Today, sec) \notin existing_ids THEN StampId(Today, sec)
    ELSE IF waited >= max_wait_seconds THEN [form |-> "RuntimeError"]
    ELSE next_id(existing_ids, sec + 1, waited + 1)

idsIdle ==
    <<tasks, runs, notifications, events, processes, proc, wpc, wl, req, nops,
      execMode, now, lockHolder, call, ex, logVars, sc, batch, inv, fs, poll>>

InitIds ==
    /\ tasks = <<>>
    /\ runs = <<>>
    /\ notifications = [t \in TaskIds |-> <<>>]
    /\ events = [t \in TaskIds |-> <<>>]
    /\ processes = [t \in TaskIds |-> NoWorker]
    /\ proc = [w \in Workers |-> "none"]
    /\ wpc = [w \in Workers |-> "idle"]
    /\ wl = [w \in Workers |-> NoLocals]
    /\ req = [r \in Reqs |-> NoRequest]
    /\ nops = 0
    /\ execMode = "AGENTIC"
    /\ now = 0
    /\ lockHolder = NoWorker
    /\ call = [w \in Workers |-> NoCall]
    /\ ex = NoExec
    /\ sc = [w \in Workers |-> NoSessionCall]
    /\ logFile = NoLog
    /\ logLock = NoWorker
    /\ appender = [a \in Appenders |-> NoAppend]
    /\ reader = NoRead
    /\ batch = NoBatch
    /\ inv = NoInvocation
    /\ fs = NoWrite
    /\ poll = NoPoll
    /\ alloc \in {[NoAlloc EXCEPT !.pc = "in", !.existing = e, !.sec = s] :
                     e \in SUBSET IdUniverse, s \in 0..MaxSecond}

\* create_task / create_run / create_notification: self._next_id(existing_ids)
NextId ==
    /\ alloc.pc = "in"
    /\ alloc' = [alloc EXCEPT !.pc = "out",
                              !.id = next_id(alloc.existing, alloc.sec, 0)]
    /\ UNCHANGED idsIdle

SpecIds == InitIds /\ [][NextId]_vars

\* ------------------------------------------------------------------ C26
\* the serials of today's ids of the form YYMMDD-NNN among the existing ids
SerialsOfToday ==
    {i.n : i \in {j \in alloc.existing : j.form = "serial" /\ j.day = Today}}

\* the serials an id of a day can have: 001 .. 999
SerialBudget == 999

\* C26: the id returned is YYMMDD-001 for the first id of a day, otherwise
\* YYMMDD-NNN with the next free serial, and of the form YYMMDD_HHMMSS only
\* once all 999 serials of the day are taken; it is never an existing id.
C26_DailySerial ==
    alloc.pc = "out" /\ alloc.id.form # "none" =>
        /\ alloc.id \notin alloc.existing
        /\ IF SerialsOfToday = {} THEN alloc.id = SerialId(Today, 1)
           ELSE IF \E n \in 1..SerialBudget : n \notin SerialsOfToday
                THEN /\ alloc.id.form = "serial"
                     /\ alloc.id.day = Today
                     /\ alloc.id.n \notin SerialsOfToday
                ELSE alloc.id.form = "stamp"


\* ------------------------------------------------------------------ C25
\* the run a task points at: runs.json has it and it belongs to the task
RunOfTask(t) ==
    LET rid == tasks[t].current_run_id IN
        rid = NoRun \/ (rid \in 1..Len(runs) /\ runs[rid].task_id = t)

BatchTasks == 2      \* rows of tasks.json
MaxIds == 3          \* items in the task_ids of a request

\* recommended_option_key: None
NoKey == "<None>"

\* str.strip(), on the texts the requests and plans are made of
strip(text) ==
    CASE text = " " -> ""
      [] text = " 1" -> "1"
      [] text = " b" -> "b"
      [] text = " f " -> "f"
      [] OTHER -> text

\* the row get_task finds for an id (ids are "1", "2", ...: the row's index)
TaskIndex(task_id) ==
    CASE task_id = "1" -> 1
      [] task_id = "2" -> 2
      [] OTHER -> NoTask

\* (variant: blanks removed, duplicates kept)
RECURSIVE normalize_keeps_duplicates(_)
normalize_keeps_duplicates(task_ids) ==
    IF task_ids = <<>> THEN <<>>
    ELSE (IF strip(Head(task_ids)) = "" THEN <<>> ELSE <<strip(Head(task_ids))>>)
         \o normalize_keeps_duplicates(Tail(task_ids))

\* normalize_task_ids, its loop from item i on
RECURSIVE NormalizeFrom(_, _, _, _)
NormalizeFrom(task_ids, i, seen, normalized) ==
    IF i > Len(task_ids) THEN normalized
    ELSE LET task_id == strip(task_ids[i]) IN
         IF task_id = "" \/ task_id \in seen
         THEN NormalizeFrom(task_ids, i + 1, seen, normalized)
         ELSE NormalizeFrom(task_ids, i + 1, seen \cup {task_id},
                            Append(normalized, task_id))

normalize_task_ids(task_ids) == NormalizeFrom(task_ids, 1, {}, <<>>)

\* a dict, as a function on its keys; d[key] = value
EmptyDict == [k \in {} |-> ""]

Put(d, key, value) ==
    [k \in DOMAIN d \cup {key} |-> IF k = key THEN value ELSE d[k]]

\* _recommended_answers, its loop from question i on
RECURSIVE AnswersFrom(_, _, _)
AnswersFrom(questions, i, answers) ==
    IF i > Len(questions) THEN answers
    ELSE LET option_key == questions[i].recommended_option_key IN
         IF option_key # NoKey /\ strip(option_key) # ""
         THEN AnswersFrom(questions, i + 1,
                          Put(answers, questions[i].id, strip(option_key)))
         ELSE AnswersFrom(questions, i + 1, answers)

\* plan_result is the flag of the core rows; its questions are kept beside it
recommended_answers(row) ==
    IF ~row.plan_result THEN EmptyDict ELSE AnswersFrom(row.questions, 1, EmptyDict)

\* build_exec_prompt for a plan: the context header, the answers if there are
\* any, then the original prompt (summary and recommended_prompt: not modelled)
build_exec_prompt(original_prompt, answers) ==
    <<"context">> \o (IF DOMAIN answers # {} THEN <<"answers">> ELSE <<>>)
                  \o <<"original">> \o original_prompt

\* the three checks of the batch loops: the error_code, "" when the id passes
BatchError(rows, task_id) ==
    IF ~HasTask(rows, TaskIndex(task_id)) THEN "TASK_NOT_FOUND"
    ELSE IF rows[TaskIndex(task_id)].status # "PLAN_REVIEW" THEN "INVALID_STATUS"
    ELSE IF ~rows[TaskIndex(task_id)].plan_result THEN "PLAN_RESULT_MISSING"
    ELSE ""

BatchConfirmPatch(row) ==
    [mode |-> "EXEC", status |-> "READY",
     prompt |-> build_exec_prompt(row.prompt, recommended_answers(row)),
     plan_answers |-> recommended_answers(row),
     error_code |-> "", error_message |-> "", cancel_requested |-> FALSE]

\* (variant: a revise that leaves cancel_requested as it is)
BatchRevisePatchKeepsCancel(row, feedback_text) ==
    [mode |-> "PLAN", status |-> "TODO",
     prompt |-> row.prompt \o <<"[user feedback]", feedback_text>>,
     error_code |-> "", error_message |-> ""]

\* "[user feedback]" stands for the header line the code writes
BatchRevisePatch(row, feedback_text) ==
    [mode |-> "PLAN", status |-> "TODO",
     prompt |-> row.prompt \o <<"[user feedback]", feedback_text>>,
     error_code |-> "", error_message |-> "", cancel_requested |-> FALSE]

\* the plans an agent may have returned: parse_plan keeps the ids and the
\* recommended keys of the agent's JSON as they are
Plans ==
    { <<>>,
      <<[id |-> "q1", recommended_option_key |-> "a"]>>,
      <<[id |-> "q1", recommended_option_key |-> " b"],
        [id |-> "q2", recommended_option_key |-> NoKey]>>,
      <<[id |-> "q1", recommended_option_key |-> " "],
        [id |-> "q2", recommended_option_key |-> "a"]>>,
      <<[id |-> "q1", recommended_option_key |-> "a"],
        [id |-> "q1", recommended_option_key |-> "b"]>> }

BatchRow(status, plan_result, questions, cancel_requested, error_code) ==
    [NewTask("PLAN", 0, 1) EXCEPT !.status = status, !.plan_result = plan_result,
                                  !.cancel_requested = cancel_requested,
                                  !.error_code = error_code]
    @@ [prompt |-> <<"p">>, plan_answers |-> EmptyDict,
        error_message |-> error_code, questions |-> questions]

\* rows a PLAN task can have: in review with its plan (a cancel that raced
\* with the plan run may have left its flag), in review without a plan
\* (update_task accepts such a patch), failed
ReviewRows ==
    {BatchRow("PLAN_REVIEW", TRUE, q, c, "") : q \in Plans, c \in BOOLEAN}

OtherRows ==
    {BatchRow("PLAN_REVIEW", FALSE, <<>>, FALSE, ""),
     BatchRow("FAILED", FALSE, <<>>, FALSE, "PLAN_EXIT_NONZERO")}

RawIds == {" ", "1", " 1", "2", "7"}

RawFeedback == {" ", "f", " f "}

batchIdle ==
    <<runs, notifications, processes, proc, wpc, wl, req, nops, execMode, now,
      lockHolder, call, ex, logVars, sc, alloc, inv, fs, poll>>

InitBatch ==
    /\ tasks \in {<<r1, r2>> : r1 \in ReviewRows \cup OtherRows,
                               r2 \in {BatchRow("PLAN_REVIEW", TRUE, <<>>, FALSE, "")}
                                      \cup OtherRows}
    /\ runs = <<>>
    /\ notifications = [t \in TaskIds |-> <<>>]
    /\ events = [t \in 1..BatchTasks |-> <<>>]
    /\ processes = [t \in TaskIds |-> NoWorker]
    /\ proc = [w \in Workers |-> "none"]
    /\ wpc = [w \in Workers |-> "idle"]
    /\ wl = [w \in Workers |-> NoLocals]
    /\ req = [r \in Reqs |-> NoRequest]
    /\ nops = 0
    /\ execMode = "AGENTIC"
    /\ now = 0
    /\ lockHolder = NoWorker
    /\ call = [w \in Workers |-> NoCall]
    /\ ex = NoExec
    /\ InitLog

\* batch_confirm_plan / batch_revise_plan, to the call of the store: the ids
\* are normalised, a request with no id left (or more than 100) or a revise
\* with blank feedback is answered 400
BatchBegin(op, task_ids, feedback) ==
    /\ batch.pc = "out"
    /\ LET ids == normalize_task_ids(task_ids) IN
       IF Len(ids) < 1 \/ Len(ids) > 100 \/ (op = "revise" /\ strip(feedback) = "")
       THEN batch' = [batch EXCEPT !.pc = "400", !.op = op,
                         !.payload = [task_ids |-> task_ids, feedback |-> feedback]]
       ELSE batch' = [batch EXCEPT !.pc = "loop", !.op = op,
                         !.payload = [task_ids |-> task_ids, feedback |-> feedback],
                         !.task_ids = ids,
                         !.normalized = normalize_task_ids(ids),
                         !.feedback = strip(feedback),
                         !.before = tasks]
    /\ UNCHANGED <<tasks, events, batchIdle>>

\* batch_confirm_plan_tasks / batch_revise_plan_tasks: one turn of the loop.
\* updated keeps the id of the patched task. update_task returns None only
\* for an id that get_task has just found: no operation removes a row, so
\* UPDATE_FAILED is never reported.
BatchStep ==
    /\ batch.pc = "loop"
    /\ batch.i <= Len(batch.normalized)
    /\ LET task_id == batch.normalized[batch.i]
           t == TaskIndex(task_id)
           code == BatchError(tasks, task_id) IN
       IF code # ""
       THEN /\ tasks' = tasks
            /\ batch' = [batch EXCEPT !.i = @ + 1,
                            !.failed = Append(@, [task_id |-> task_id,
                                                  error_code |-> code])]
       ELSE /\ tasks' = update_task(tasks, t,
                            IF batch.op = "confirm"
                            THEN BatchConfirmPatch(tasks[t])
                            ELSE BatchRevisePatch(tasks[t], strip(batch.feedback)))
            /\ batch' = [batch EXCEPT !.i = @ + 1, !.updated = Append(@, task_id)]
    /\ UNCHANGED <<events, batchIdle>>

\* the handler's "for task in updated: store.append_event(task.id, ...)"
BatchEvent ==
    /\ batch.pc = "loop"
    /\ batch.i > Len(batch.normalized)
    /\ batch.logged < Len(batch.updated)
    /\ events' = [events EXCEPT ![TaskIndex(batch.updated[batch.logged + 1])] =
                      Append(@, [type |-> IF batch.op = "confirm"
                                          THEN "plan_batch_confirm"
                                          ELSE "plan_batch_revise"])]
    /\ batch' = [batch EXCEPT !.logged = @ + 1]
    /\ UNCHANGED <<tasks, batchIdle>>

\* the handler's return: updated, failed and the counts
BatchReturn ==
    /\ batch.pc = "loop"
    /\ batch.i > Len(batch.normalized)
    /\ batch.logged = Len(batch.updated)
    /\ batch' = [batch EXCEPT !.pc = "done",
                    !.counts = [requested |-> Len(batch.task_ids),
                                updated |-> Len(batch.updated),
                                failed |-> Len(batch.failed)]]
    /\ UNCHANGED <<tasks, events, batchIdle>>

RawLists == UNION {[1..n -> RawIds] : n \in 0..MaxIds}

NextBatch ==
    \/ \E task_ids \in RawLists : BatchBegin("confirm", task_ids, "")
    \/ \E task_ids \in RawLists, feedback \in RawFeedback :
           BatchBegin("revise", task_ids, feedback)
    \/ BatchStep
    \/ BatchEvent
    \/ BatchReturn

SpecBatch == InitBatch /\ [][NextBatch]_vars


\* -------------------------------------------------------------- C27 - C29
\* the request has been answered
BatchDone(op) == batch.pc = "done" /\ batch.op = op

\* the listed tasks that were in PLAN_REVIEW with a plan_result when the
\* request came in
Listed ==
    {t \in 1..Len(batch.before) :
        /\ \E i \in 1..Len(batch.payload.task_ids) :
               TaskIndex(strip(batch.payload.task_ids[i])) = t
        /\ batch.before[t].status = "PLAN_REVIEW"
        /\ batch.before[t].plan_result}

HasRecommendation(question) ==
    /\ question.recommended_option_key # NoKey
    /\ strip(question.recommended_option_key) # ""

\* one entry for each question with a non-blank recommended key, holding
\* that key (trimmed), and no entry for any other question
AnswerPerQuestion(questions, answers) ==
    /\ \A j \in 1..Len(questions) :
          IF HasRecommendation(questions[j])
          THEN /\ questions[j].id \in DOMAIN answers
               /\ answers[questions[j].id] = strip(questions[j].recommended_option_key)
          ELSE questions[j].id \notin DOMAIN answers
    /\ Cardinality(DOMAIN answers)
         = Cardinality({j \in 1..Len(questions) : HasRecommendation(questions[j])})

\* C27: after batch_confirm_plan_tasks every listed task that was in
\* PLAN_REVIEW with a plan_result has mode EXEC, status READY,
\* cancel_requested false, empty error fields, and plan_answers with exactly
\* one entry (question id -> recommended key) for each question that has a
\* non-blank recommended key and none for the other questions
C27_BatchConfirm ==
    BatchDone("confirm") =>
        \A t \in Listed :
            /\ tasks[t].mode = "EXEC"
            /\ tasks[t].status = "READY"
            /\ ~tasks[t].cancel_requested
            /\ tasks[t].error_code = ""
            /\ tasks[t].error_message = ""
            /\ AnswerPerQuestion(batch.before[t].questions, tasks[t].plan_answers)

\* positions of the raw items whose trimmed text is task_id
Positions(task_id) ==
    {k \in 1..Len(batch.payload.task_ids) :
        strip(batch.payload.task_ids[k]) = task_id}

FirstPosition(task_id) ==
    CHOOSE k \in Positions(task_id) : \A m \in Positions(task_id) : k <= m

\* how often task_id is reported, in updated and in failed
Reported(task_id) ==
    Cardinality({i \in 1..Len(batch.updated) : batch.updated[i] = task_id})
    + Cardinality({i \in 1..Len(batch.failed) : batch.failed[i].task_id = task_id})

\* the code the id of a task that must fail is reported with
ExpectedCode(task_id) ==
    LET t == TaskIndex(task_id) IN
        IF t \notin 1..Len(batch.before) THEN "TASK_NOT_FOUND"
        ELSE IF batch.before[t].status # "PLAN_REVIEW" THEN "INVALID_STATUS"
        ELSE IF ~batch.before[t].plan_result THEN "PLAN_RESULT_MISSING"
        ELSE ""

\* C28: batch confirm and batch revise work on the normalised id list (no
\* blank, no duplicate, first-seen order); once answered, each normalised id
\* is in exactly one of updated and failed and requested = updated + failed;
\* an unknown id, a task not in PLAN_REVIEW and a task without plan_result
\* are reported with TASK_NOT_FOUND, INVALID_STATUS, PLAN_RESULT_MISSING and
\* the task is as it was; every other listed task is updated all the same
C28_BatchPartition ==
    batch.pc \in {"loop", "done"} =>
        LET ids == batch.normalized IN
        /\ \A i \in 1..Len(ids) : ids[i] # "" /\ Positions(ids[i]) # {}
        /\ \A k \in 1..Len(batch.payload.task_ids) :
              strip(batch.payload.task_ids[k]) # ""
                  => \E i \in 1..Len(ids) : ids[i] = strip(batch.payload.task_ids[k])
        /\ \A i, j \in 1..Len(ids) :
              i < j => /\ ids[i] # ids[j]
                       /\ FirstPosition(ids[i]) < FirstPosition(ids[j])
        /\ batch.pc = "done" =>
              /\ \A i \in 1..Len(ids) : Reported(ids[i]) = 1
              /\ batch.counts.requested = Len(ids)
              /\ batch.counts.requested = batch.counts.updated + batch.counts.failed
              /\ batch.counts.updated = Len(batch.updated)
              /\ batch.counts.failed = Len(batch.failed)
              /\ \A i \in 1..Len(batch.failed) :
                    /\ batch.failed[i].error_code = ExpectedCode(batch.failed[i].task_id)
                    /\ batch.failed[i].error_code
                         \in {"TASK_NOT_FOUND", "INVALID_STATUS", "PLAN_RESULT_MISSING"}
                    /\ HasTask(tasks, TaskIndex(batch.failed[i].task_id))
                         => tasks[TaskIndex(batch.failed[i].task_id)]
                              = batch.before[TaskIndex(batch.failed[i].task_id)]
              /\ \A i \in 1..Len(batch.updated) : ExpectedCode(batch.updated[i]) = ""
              /\ \A t \in Listed : \E i \in 1..Len(batch.updated) :
                                       TaskIndex(batch.updated[i]) = t

\* a request with a blank and a duplicate among its items, answered with an
\* unknown id reported first and a task updated after it
C28_Witness ==
    /\ batch.pc = "done"
    /\ batch.payload.task_ids = <<"7", " ", "1">> \/ batch.payload.task_ids = <<"2", "2", "1">>
    /\ Len(batch.failed) = 1
    /\ batch.updated = <<"1">>

\* C29: after batch_revise_plan_tasks every listed task that was in
\* PLAN_REVIEW with a plan_result has mode PLAN, status TODO, its prompt
\* followed by the trimmed feedback, cancel_requested false and empty error
\* fields, so that claim_next_task takes it for a PLAN run; its log has one
\* plan_batch_revise event, and no other task's log has any
C29_BatchRevise ==
    BatchDone("revise") =>
        /\ \A t \in Listed :
            /\ tasks[t].mode = "PLAN"
            /\ tasks[t].status = "TODO"
            /\ tasks[t].prompt
                 = batch.before[t].prompt
                     \o <<"[user feedback]", strip(batch.payload.feedback)>>
            /\ ~tasks[t].cancel_requested
            /\ tasks[t].error_code = ""
            /\ tasks[t].error_message = ""
            /\ IsCandidate(tasks[t])
            /\ ClaimedStatus(tasks[t].mode) = "PLAN_RUNNING"
            /\ events[t] = <<[type |-> "plan_batch_revise"]>>
        /\ \A t \in 1..Len(tasks) : t \notin Listed => events[t] = <<>>

\* a revise with padded feedback has put back a task whose cancel flag was set
C29_Witness ==
    /\ BatchDone("revise")
    /\ batch.payload.feedback = " f "
    /\ \E t \in Listed : batch.before[t].cancel_requested /\ IsCandidate(tasks[t])


\* =====================================================================
\* SpecTimeout: one call of _run_claude_cmd with its agent process, the
\* pipe between them and the wall clock
\* =====================================================================
timeout_ticks == 2   \* timeout_seconds, in ticks of the clock
MaxElapsed == 4      \* the clock is followed for this many ticks
MaxLines == 2        \* lines the agent writes

timeoutIdle ==
    <<tasks, runs, notifications, events, processes, proc, wpc, wl, req, nops,
      execMode, now, lockHolder, call, ex, logVars, sc, alloc, batch, fs, poll>>

\* after append_event("command"), Popen and _register_proc; start = time.time()
InitTimeout ==
    /\ tasks = <<>>
    /\ runs = <<>>
    /\ notifications = [t \in TaskIds |-> <<>>]
    /\ events = [t \in TaskIds |-> <<>>]
    /\ processes = [t \in TaskIds |-> NoWorker]
    /\ proc = [w \in Workers |-> "none"]
    /\ wpc = [w \in Workers |-> "idle"]
    /\ wl = [w \in Workers |-> NoLocals]
    /\ req = [r \in Reqs |-> NoRequest]
    /\ nops = 0
    /\ execMode = "AGENTIC"
    /\ now = 0
    /\ lockHolder = NoWorker
    /\ call = [w \in Workers |-> NoCall]
    /\ ex = NoExec
    /\ sc = [w \in Workers |-> NoSessionCall]
    /\ alloc = NoAlloc
    /\ batch = NoBatch
    /\ logFile = NoLog
    /\ logLock = NoWorker
    /\ appender = [a \in Appenders |-> NoAppend]
    /\ reader = NoRead
    /\ fs = NoWrite
    /\ poll = NoPoll
    /\ inv = [NoInvocation EXCEPT !.pc = "read", !.agent = "running",
                                  !.log = <<"command">>]

\* time.time() - start > timeout_seconds
TimedOut(elapsed) == elapsed > timeout_ticks

\* the wall clock; overran: the agent was still running, and the call still
\* in its loop, when the time of the invocation passed the timeout
Tick ==
    /\ inv.pc \in {"read", "wait"}
    /\ inv.elapsed < MaxElapsed
    /\ inv' = [inv EXCEPT !.elapsed = @ + 1,
                  !.overran = @ \/ (inv.pc = "read" /\ inv.agent = "running"
                                    /\ TimedOut(inv.elapsed + 1))]
    /\ UNCHANGED timeoutIdle

\* the agent writes a line (or an empty line) to its stdout
AgentWrite(line) ==
    /\ inv.agent = "running"
    /\ inv.pipe = <<>>
    /\ inv.lines < MaxLines
    /\ inv' = [inv EXCEPT !.pipe = <<line>>, !.lines = @ + 1]
    /\ UNCHANGED timeoutIdle

\* the agent ends by itself: its stdout is closed
AgentExit(code) ==
    /\ inv.agent = "running"
    /\ inv' = [inv EXCEPT !.agent = "exited", !.returncode = code]
    /\ UNCHANGED timeoutIdle

\* proc.terminate(): the process ends, or ignores SIGTERM
Terminated(stubborn) == IF stubborn THEN "stubborn" ELSE "exited"

\* "for line in proc.stdout": a line has come; one turn of the loop.
\* cancel_requested is what is_cancel_requested finds in tasks.json.
ReadLine(cancel_requested, stubborn) ==
    /\ inv.pc = "read"
    /\ inv.pipe # <<>>
    /\ IF Head(inv.pipe) = ""
       THEN inv' = [inv EXCEPT !.pipe = <<>>]
       ELSE IF cancel_requested
       THEN inv' = [inv EXCEPT !.pipe = <<>>, !.log = Append(@, "stream"),
                       !.cancelled = TRUE, !.terminated = TRUE,
                       !.agent = IF @ = "running" THEN Terminated(stubborn) ELSE @,
                       !.pc = "wait"]
       ELSE IF TimedOut(inv.elapsed)
       THEN inv' = [inv EXCEPT !.pipe = <<>>,
                       !.log = Append(Append(@, "stream"), "timeout"),
                       !.terminated = TRUE,
                       !.agent = IF @ = "running" THEN Terminated(stubborn) ELSE @,
                       !.pc = "wait"]
       ELSE inv' = [inv EXCEPT !.pipe = <<>>, !.log = Append(@, "stream")]
    /\ UNCHANGED timeoutIdle

\* "for line in proc.stdout": end of file, the agent has closed its stdout
ReadEof ==
    /\ inv.pc = "read"
    /\ inv.pipe = <<>>
    /\ inv.agent = "exited"
    /\ inv' = [inv EXCEPT !.pc = "wait"]
    /\ UNCHANGED timeoutIdle

\* proc.wait(timeout=15); TimeoutExpired: proc.kill(), returncode still None;
\* _unregister_proc; the call returns proc.returncode or 0
WaitProc ==
    /\ inv.pc = "wait"
    /\ inv' = [inv EXCEPT !.pc = "returned",
                  !.agent = IF @ = "stubborn" THEN "killed" ELSE @,
                  !.returncode = IF inv.agent = "stubborn" THEN 0 ELSE @]
    /\ UNCHANGED timeoutIdle

NextTimeout ==
    \/ Tick
    \/ \E line \in {"", "text"} : AgentWrite(line)
    \/ \E code \in ExitCodes : AgentExit(code)
    \/ \E cancel_requested \in BOOLEAN, stubborn \in BOOLEAN :
           ReadLine(cancel_requested, stubborn)
    \/ ReadEof
    \/ WaitProc

SpecTimeout == InitTimeout /\ [][NextTimeout]_vars

\* ------------------------------------------------------------------ C30
\* C30: an invocation during which the wall-clock time passed the per-run
\* timeout with the agent still running (and that was not cancelled) has a
\* timeout event in the task's log and its subprocess terminated when it
\* ends, also when the agent had stopped writing lines
C30_TimeoutTrips ==
    (inv.pc = "returned" /\ inv.overran /\ ~inv.cancelled) =>
        /\ \E i \in 1..Len(inv.log) : inv.log[i] = "timeout"
        /\ inv.terminated


\* ------------------------------------------------------------------ C31
\* no worker is inside run_task or _safe_run and no handler inside a request
Quiet ==
    /\ \A w \in Workers : wpc[w] = "idle"
    /\ \A r \in Reqs : req[r].pc = "idle"

NotifiedAs(t, type) ==
    \E i \in 1..Len(notifications[t]) : notifications[t][i] = type

\* C31: every transition of a task into REVIEW, FAILED or CANCELLED, by the
\* runner, by a direct cancel or by the crash handler of the scheduler, is
\* followed by a notification for the task of type SUCCESS, ERROR or INFO;
\* in its finite form: once the threads that made the transition are done,
\* a task in one of these statuses has a notification of the matching type
C31_TerminalNotified ==
    Quiet =>
        \A t \in 1..Len(tasks) :
            /\ tasks[t].status = "REVIEW" => NotifiedAs(t, "SUCCESS")
            /\ tasks[t].status = "FAILED" => NotifiedAs(t, "ERROR")
            /\ tasks[t].status = "CANCELLED" => NotifiedAs(t, "INFO")


\* ------------------------------------------------------------------ C32
\* run_task raised out of worker w's call: the worker leaves the spawn other
\* than into the stream loop or into the runner's own except clause
RunTaskRaised(w) ==
    /\ wpc[w] = "spawn"
    /\ wpc'[w] \notin {"spawn", "stream", "outcome"}

\* C32: when run_task raises an unhandled exception the worker marks the
\* task FAILED with error_code SCHEDULER_CRASH and is back at the head of
\* its loop, where it claims later tasks: no worker is lost
C32_CrashKeepsWorker ==
    [][\A w \in Workers :
          RunTaskRaised(w) =>
              /\ tasks'[wl[w].task].status = "FAILED"
              /\ tasks'[wl[w].task].error_code = "SCHEDULER_CRASH"
              /\ wpc'[w] = "idle"]_vars

\* worker 1 has claimed a task again after its first run crashed: that run
\* was never finished, and no other worker is busy
C32_Witness ==
    /\ wpc[1] = "create_run"
    /\ \A w \in Workers : w # 1 => wpc[w] = "idle"
    /\ Len(runs) = 1
    /\ ~runs[1].ended
    /\ tasks[wl[1].task].current_run_id = 1


\* =====================================================================
\* SpecWrite: one collection file under create operations (lock, _read_json,
\* append, _write_json_atomic) of a process that may crash at any step
\* =====================================================================
MaxRecords == 3      \* records ever created
MaxCrashes == 2      \* crashes of the process

writeIdle ==
    <<tasks, runs, notifications, events, processes, proc, wpc, wl, req, nops,
      execMode, now, lockHolder, call, ex, logVars, sc, alloc, batch, inv, poll>>

\* _read_json: [] for an empty text or one json.loads rejects
read_json(text) == IF text.whole THEN text.rows ELSE <<>>

\* (variant: the payload is written over the collection file itself)
DumpInPlace(d, rows, whole) == [d EXCEPT !.file = Text(rows, whole)]

\* the bytes json.dump and tmp.write have put on disk so far go to the temp file
Dump(d, rows, whole) == [d EXCEPT !.tmp = Text(rows, whole)]

\* after JsonStore.__init__: the file holds "[]"
InitWrite ==
    /\ tasks = <<>>
    /\ runs = <<>>
    /\ notifications = [t \in TaskIds |-> <<>>]
    /\ events = [t \in TaskIds |-> <<>>]
    /\ processes = [t \in TaskIds |-> NoWorker]
    /\ proc = [w \in Workers |-> "none"]
    /\ wpc = [w \in Workers |-> "idle"]
    /\ wl = [w \in Workers |-> NoLocals]
    /\ req = [r \in Reqs |-> NoRequest]
    /\ nops = 0
    /\ execMode = "AGENTIC"
    /\ now = 0
    /\ lockHolder = NoWorker
    /\ call = [w \in Workers |-> NoCall]
    /\ ex = NoExec
    /\ InitLog

\* a create operation, under the collection's lock: rows = _read_json(file),
\* rows.append(record), then _write_json_atomic(file, rows)
WBegin ==
    /\ fs.pc = "idle"
    /\ fs.made < MaxRecords
    /\ fs' = [fs EXCEPT !.pc = "open", !.made = @ + 1,
                 !.prev = read_json(fs.file),
                 !.payload = Append(read_json(fs.file), fs.made + 1)]
    /\ UNCHANGED writeIdle

\* tempfile.NamedTemporaryFile(dir=parent, delete=False): a new, empty file
WOpen ==
    /\ fs.pc = "open"
    /\ fs' = [Dump(fs, <<>>, FALSE) EXCEPT !.pc = "dump"]
    /\ UNCHANGED writeIdle

\* json.dump, tmp.write: the first k rows have reached the file
WDump(k) ==
    /\ fs.pc = "dump"
    /\ fs' = [Dump(fs, SubSeq(fs.payload, 1, k), FALSE) EXCEPT !.pc = "flush"]
    /\ UNCHANGED writeIdle

\* tmp.flush(): the whole text is in the file
WFlush ==
    /\ fs.pc = "flush"
    /\ fs' = [Dump(fs, fs.payload, TRUE) EXCEPT !.pc = "fsync"]
    /\ UNCHANGED writeIdle

\* os.fsync(tmp.fileno()) and the close of the temp file
WFsync ==
    /\ fs.pc = "fsync"
    /\ fs' = [fs EXCEPT !.pc = "replace"]
    /\ UNCHANGED writeIdle

\* os.replace(tmp_path, file_path): the rename; the operation returns and
\* its record is stored
WReplace ==
    /\ fs.pc = "replace"
    /\ fs' = [fs EXCEPT !.pc = "idle", !.file = fs.tmp, !.tmp = Text(<<>>, FALSE),
                 !.stored = @ \cup {fs.payload[Len(fs.payload)]}]
    /\ UNCHANGED writeIdle

\* the process dies inside the operation; the lock is released, the temp
\* file stays as it is
Crash ==
    /\ fs.pc \notin {"idle", "crashed"}
    /\ fs.crashes < MaxCrashes
    /\ fs' = [fs EXCEPT !.pc = "crashed", !.crashes = @ + 1]
    /\ UNCHANGED writeIdle

\* the process is started again: __init__ finds the file and leaves it
Restart ==
    /\ fs.pc = "crashed"
    /\ fs' = [fs EXCEPT !.pc = "idle"]
    /\ UNCHANGED writeIdle

NextWrite ==
    \/ WBegin
    \/ WOpen
    \/ \E k \in 0..MaxRecords : k <= Len(fs.payload) /\ WDump(k)
    \/ WFlush
    \/ WFsync
    \/ WReplace
    \/ Crash
    \/ Restart

SpecWrite == InitWrite /\ [][NextWrite]_vars

\* ------------------------------------------------------------------ C33
\* C33: whatever step of a collection write the process crashes at, the
\* collection file holds the whole previous array or the whole next array,
\* never a partial or emptied one, and every record stored before is still
\* read from it by the operations that follow
C33_AtomicWrite ==
    /\ fs.file.whole
    /\ fs.file.rows \in {fs.prev, fs.payload}
    /\ fs.stored # {} => fs.file.rows # <<>>
    /\ \A record \in fs.stored :
           \E i \in 1..Len(read_json(fs.file)) : read_json(fs.file)[i] = record

\* after a crash in the middle of a write that followed two stored records,
\* the process is back and the file has both, not the record of the crashed
\* operation
C33_Witness ==
    /\ fs.pc = "idle"
    /\ fs.crashes >= 1
    /\ fs.stored = {1, 2}
    /\ fs.made = 3
    /\ fs.tmp.rows # <<>>
    /\ fs.file = Text(<<1, 2>>, TRUE)


\* ------------------------------------------------------------------ C34
\* the step is the update_task of a user request on task t
UserWrite(t) ==
    \E r \in Reqs : /\ req[r].pc = "write"
                    /\ req[r].tid = t
                    /\ req'[r] # req[r]

\* C34: a task that is FAILED, CANCELLED or DONE is not claimed or run again
\* and does not leave that status unless a user operation is applied to it:
\* no step of a worker takes a task out of these statuses
C34_TerminalStays ==
    [][\A t \in 1..Len(tasks) :
          (/\ tasks[t].status \in {"FAILED", "CANCELLED", "DONE"}
           /\ tasks'[t].status # tasks[t].status) => UserWrite(t)]_vars


\* ------------------------------------------------------------------ C35
\* C35: after reset_task_for_retry the task has status TODO, the requested
\* mode if one was given and its previous mode otherwise, empty error fields,
\* cancel_requested false and no current_run_id
C35_RetryResets ==
    [][\A r \in Reqs :
          WriteStep(r, "retry", "idle") =>
              /\ tasks'[req[r].tid].status = "TODO"
              /\ tasks'[req[r].tid].mode = req[r].mode
              /\ tasks'[req[r].tid].error_code = ""
              /\ ~tasks'[req[r].tid].cancel_requested
              /\ tasks'[req[r].tid].current_run_id = NoRun]_vars


\* ------------------------------------------------------------------ C36
\* C36: no agent subprocess is started for a task whose cancel_requested
\* flag is set or whose status is CANCELLED: a cancel that lands between the
\* claim and the spawn prevents the spawn
C36_NoSpawnAfterCancel ==
    [][\A w \in Workers :
          (wpc[w] = "spawn" /\ wpc'[w] = "stream") =>
              /\ ~tasks[wl[w].task].cancel_requested
              /\ tasks[wl[w].task].status # "CANCELLED"]_vars


\* ------------------------------------------------------------------ C37
\* C37: a run whose agent was terminated because of the timeout, or killed
\* when the wait after the loop expired, is never classified as a success:
\* the outcome written for it is neither PLAN_REVIEW nor REVIEW, whatever
\* return code was read from the process
C37_TimeoutNeverSuccess ==
    [][\A w \in Workers :
          (wpc[w] = "outcome" /\ wl[w].timed_out /\ wpc'[w] # "outcome") =>
              tasks'[wl[w].task].status \notin {"PLAN_REVIEW", "REVIEW"}]_vars


\* ------------------------------------------------------------------ C38
\* C38: while an agent subprocess of a task is running the registry maps the
\* task to that subprocess (so that cancel terminates it), and once the
\* invocation has returned the registry has no entry for the task
C38_Registry ==
    /\ \A w \in Workers :
          proc[w] = "alive" => processes[wl[w].task] = w
    /\ \A t \in TaskIds :
          processes[t] # NoWorker =>
              /\ wl[processes[t]].task = t
              /\ wpc[processes[t]] \in {"stream", "wait"}


\* =====================================================================
\* SpecPoll: the threads of SpecEvents and a client that polls
\* GET /events, each time with the next_cursor of its last answer
\* =====================================================================
pollIdle ==
    <<tasks, runs, notifications, events, processes, proc, wpc, wl, req, nops,
      execMode, now, lockHolder, call, ex, sc, alloc, batch, inv, fs>>

\* the client's next poll: read_events(task_id, cursor) with its cursor; it
\* keeps the events and takes next_cursor as its cursor
Poll ==
    /\ LET res == read_events(logFile, poll.cursor)
       IN poll' = [cursor |-> res.next_cursor, got |-> poll.got \o res.events,
                   file |-> logFile, polled |-> TRUE]
    /\ poll' # poll
    /\ UNCHANGED <<logVars, pollIdle>>

NextPoll ==
    \/ \E a \in Appenders : AppendEnter(a)
    \/ \E a \in Appenders : AppendRead(a)
    \/ \E a \in Appenders : AppendWrite(a)
    \/ LogAges
    \/ cleanup_old_logs
    \/ Poll

SpecPoll == InitEvents /\ [][NextPoll]_vars

\* ------------------------------------------------------------------ C39
\* C39: a client that polls from cursor 0, passing on each next_cursor,
\* receives every appended event exactly once and in seq order, whatever
\* appends and log deletions come between its polls; in its finite form:
\* what it has received is in strictly rising seq order, and right after a
\* poll it has received every event the log holds
C39_PollSeesAll ==
    /\ \A i, j \in 1..Len(poll.got) : i < j => poll.got[i].seq < poll.got[j].seq
    /\ (poll.polled /\ poll.file = logFile) =>
           \A k \in 1..Len(logFile.lines) :
               \E i \in 1..Len(poll.got) : poll.got[i] = logFile.lines[k]


\* ------------------------------------------------------------------ C40
\* claim_next_task would return task t
Claimable(t) == HasTask(tasks, t) /\ IsCandidate(tasks[t])

InRun(t) == HasTask(tasks, t) /\ tasks[t].status \in {"RUNNING", "PLAN_RUNNING"}

RunOver(t) ==
    /\ HasTask(tasks, t)
    /\ tasks[t].status \in {"PLAN_REVIEW", "REVIEW", "FAILED", "CANCELLED"}

\* a worker thread is inside _safe_run for task t
Executing(t) == \E w \in Workers : wpc[w] # "idle" /\ wl[w].task = t

\* C40: with the worker threads scheduled fairly and every agent subprocess
\* exiting or being terminated, a claimable task is eventually claimed (or
\* cancelled before that), a claimed task eventually leaves RUNNING /
\* PLAN_RUNNING for PLAN_REVIEW, REVIEW, FAILED or CANCELLED, and no task is
\* RUNNING or PLAN_RUNNING without a worker executing it.
C40_Progress ==
    /\ \A t \in TaskIds : Claimable(t) ~> ~Claimable(t)
    /\ \A t \in TaskIds : InRun(t) ~> RunOver(t)
    /\ [](\A t \in TaskIds : InRun(t) => Executing(t))

\* a task was claimed and run, its run is closed, the task has left
\* PLAN_RUNNING for PLAN_REVIEW and every worker is back in its loop
C40_Witness ==
    /\ \E t \in 1..Len(tasks) :
        /\ tasks[t].status = "PLAN_REVIEW"
        /\ tasks[t].current_run_id # NoRun
        /\ runs[tasks[t].current_run_id].ended
    /\ \A w \in Workers : wpc[w] = "idle"
====
